---- MODULE Spec2Model ----
(***************************************************************************)
(* A model of openplace: the pagination state machine                      *)
(* (tasks/scrape/navigate.py), the local store (storage/local) and the     *)
(* discovery and retrieval workflows (workflows/metadata.py, files.py).    *)
(***************************************************************************)
EXTENDS Integers, Sequences, FiniteSets, TLC

(***************************************************************************)
(* Bounds of the model.                                                    *)
(***************************************************************************)
\* elements of class "col-md-10 text-justify" on a posting page
MaxSections == 4
\* anchors in the element of id 'pub' of a posting page
MaxAnchors == 2
\* characters of a file name and of a kind, largest posting id of an archive
MaxNameLen == 2
MaxArchiveId == 10
\* archives in the directory given to extract_all_archives
MaxArchives == 4
\* posting URLs the portal can show: .../consultation/<id>?orgAcronyme=<org>, one per id
NumUrls == 2
\* distinct PRADO_PAGESTATE values
NumTokens == 2
\* largest n and ensure_n_new_links given to iter_n_batches
MaxN == 2
MaxK == 2
\* discovery instances running against the same store
NumInstances == 2
\* stored postings of a bulk retrieval
MaxPostings == 3
\* PostingLink rows kept for one posting id
MaxLinkRows == 2

(***************************************************************************)
(* Values.                                                                 *)
(***************************************************************************)
PostingUrls == 1..NumUrls
\* an href that does not have the posting-URL shape
OtherHref == 0
Hrefs == {OtherHref} \cup PostingUrls
Tokens == 1..NumTokens
NoToken == 0
SessionCookie == 1
NoCookie == 0
HttpStatuses == {200, 500, 404}

SeqToSet(s) == {s[i] : i \in 1..Len(s)}
NoDuplicates(s) == \A i, j \in 1..Len(s) : i # j => s[i] # s[j]
\* the anchors of one result page, in document order: a page shows no anchor,
\* one, or two (which may be the same, and may lack the posting-URL shape)
HrefLists == {<<>>} \cup {<<a>> : a \in Hrefs} \cup {<<a, b>> : a \in Hrefs, b \in Hrefs}

\* Optional values (None | x) are sequences of length 0 or 1.
None == <<>>
Some(x) == <<x>>

(***************************************************************************)
(* State.                                                                  *)
(***************************************************************************)
VARIABLES
    \* PlacePostingIterator attributes
    links, page_state, cookie, previous_links, exhausted, seen_links,
    batch_index, num_new_links, num_iterations,
    \* the result page of the search session: the posting links, as served, of
    \* the last page the iterator took
    displayed,
    \* the store: Posting rows by id
    postings,
    \* control: position of the caller, outcome of the last __next__ call
    pc, outcome,
    \* history: batches returned by __next__, requests sent, the termination
    \* signal that ended the sequence, the signal the specification names for
    \* the last response, the stored URLs given to the constructor
    emitted, requests, signal, specSignal, seeded,
    \* history of the pages served: links of the GET page, links of all POST
    \* pages, whether they were distinct, number of POST pages (fresh token)
    \* and of POST responses that were not pages
    firstPage, postLinks, distinctPosts, nPages, stalls,
    \* the caller of iter_n_batches: who consumes the generator, its arguments
    \* n and ensure_n_new_links, the links of the yielded batch still to process
    consumer, arg_n, ensure, todo,
    \* discover_new_postings: len(new_postings), the exception that ended the
    \* run; history: the store when the run started, the ids of the postings
    \* whose page the run fetched
    num_new_postings, raised, stored0, processed,
    \* history of discovery: whether the page of a posting that was stored was
    \* requested ("fetched") and whether such a request failed ("failed"); the
    \* links found on the page of each posting when it was persisted
    storedFetch, pageLinks,
    \* the outcome of the last direct call of a store operation
    store_op,
    \* the store: kinds of the PostingLink rows by posting id, and their
    \* fetching_status
    plinks, link_status,
    \* download_pending_files: position, the (posting, link) records of the
    \* query, the loop index, the two counters
    rpc, records, idx, num_success, num_failure,
    \* history of the bulk retrieval: result of each fetch of the run, whether
    \* every posting was Pending when the run started
    fetchLog, pendingAtStart,
    \* fetch_posting_files: the posting of the last call, the result of each
    \* fetch it made, whether it is running, has returned or has raised; None
    \* once a bulk retrieval has started since
    lastFetch,
    \* a call of PostingFileFetcher: its position, its kind and the procedure
    \* it was routed to, the requests sent
    \* and the responses received, page_state and cookie of fetch_dce_file,
    \* the filenames the byte sink was invoked with, the result
    fetcher,
    \* history of the search session: the status of the last response, the
    \* token of the last response that advanced the cursor, the Set-Cookie of
    \* the GET, whether every POST carried that token and that cookie
    session,
    \* a call of a function of tasks/scrape/parse.py or tasks/store/writers.py:
    \* its name, its argument, its result once it has run
    call,
    \* extract_all_archives: its position, the outcome of the task of each
    \* archive in creation order, the rows of record_archive_content, the result
    extraction,
    \* discovery instances that share the store: for each its position in
    \* _fetch_and_persist_if_new, its link, the page it fetched, its result
    instances

iterVars == <<links, page_state, cookie, previous_links, exhausted, seen_links,
              batch_index, num_new_links, num_iterations>>
histVars == <<emitted, requests, signal, specSignal, seeded,
              firstPage, postLinks, distinctPosts, nPages, stalls, session>>
batchVars == <<consumer, arg_n, ensure, todo>>
discVars == <<num_new_postings, raised, stored0, processed, storedFetch, pageLinks,
              store_op>>
retrVars == <<plinks, link_status, rpc, records, idx, num_success, num_failure,
              fetchLog, pendingAtStart, lastFetch, fetcher>>
libVars == <<call, extraction, instances>>
vars == <<iterVars, displayed, postings, pc, outcome, histVars, batchVars,
          discVars, retrVars, libVars>>

(***************************************************************************)
(* tasks/scrape/patterns.py and parse.py                                   *)
(***************************************************************************)
\* re.match(LINK_REGEX, href)
MatchesLinkRegex(h) == h \in PostingUrls

\* extract_links_from_anchor_tags: the hrefs matching the regex, in document order
ExtractLinks(hrefs) == SelectSeq(hrefs, MatchesLinkRegex)

(***************************************************************************)
(* The search backend (the portal).  A POST is routed by its               *)
(* PRADO_POSTBACK_TARGET: the pager's next control serves another page,    *)
(* the page-size control renders the displayed page again.                 *)
(***************************************************************************)
PagerNextControl == "ctl0$CONTENU_PAGE$resultSearch$PagerTop$ctl2"
PageSizeControl == "ctl0$CONTENU_PAGE$resultSearch$listePageSizeTop"

ErrorResponses ==
    {[status |-> s, token |-> NoToken, cookie |-> NoCookie, hrefs |-> <<>>] :
        s \in HttpStatuses \ {200}}

\* The GET of the search page.  Tokens are opaque and only compared with each
\* other, so the first token served is FirstToken; the iterator reads nothing
\* but the token and the cookie of this page, whose result list is kept short.
FirstToken == CHOOSE t \in Tokens : \A u \in Tokens : t <= u
GetPageLists == {<<>>} \cup {<<a>> : a \in PostingUrls}

SearchGetResponses ==
    {[status |-> 200, token |-> FirstToken, cookie |-> SessionCookie, hrefs |-> h] :
        h \in GetPageLists}
    \cup {[status |-> 200, token |-> NoToken, cookie |-> SessionCookie, hrefs |-> <<>>],
          [status |-> 200, token |-> FirstToken, cookie |-> NoCookie, hrefs |-> <<>>]}
    \cup ErrorResponses

SearchPostResponses(req, shown) ==
    IF req.target = PageSizeControl
    THEN {[status |-> 200, token |-> t, cookie |-> NoCookie, hrefs |-> shown] :
            t \in Tokens}
    ELSE {[status |-> 200, token |-> t, cookie |-> NoCookie, hrefs |-> h] :
            t \in Tokens \cup {NoToken}, h \in HrefLists}
         \cup ErrorResponses

GetRequest ==
    [method |-> "GET", target |-> "", token |-> NoToken, cookie |-> NoCookie, size |-> 0]

\* what the request log keeps of a request
Logged(req) == [method |-> req.method, target |-> req.target, size |-> req.size]

(***************************************************************************)
(* storage/local/queries.py                                                *)
(***************************************************************************)
ListLimit == 100

\* the ids of the stored postings in primary-key order
RECURSIVE SortedIds(_)
SortedIds(S) ==
    IF S = {} THEN <<>>
    ELSE LET m == CHOOSE x \in S : \A y \in S : x <= y
         IN <<m>> \o SortedIds(S \ {m})

\* list_postings(limit): select(Posting).limit(limit)
list_postings(limit) ==
    LET ids == SortedIds(DOMAIN postings)
    IN [i \in 1..(IF Len(ids) < limit THEN Len(ids) ELSE limit) |-> postings[ids[i]]]

(***************************************************************************)
(* PlacePostingIterator                                                    *)
(***************************************************************************)
\* _deduplicate_links: the links not in _seen_links, order and repeats kept
DeduplicateLinks(ls, seen) == SelectSeq(ls, LAMBDA l : l \notin seen)

\* the POST of _increment_state
IncrementRequest(ps, ck, num_results) ==
    [method |-> "POST", target |-> PagerNextControl, token |-> ps, cookie |-> ck,
     size |-> num_results]

StalePageRequest(ps, ck) ==
    [method |-> "POST", target |-> PagerNextControl, token |-> FirstToken, cookie |-> ck,
     size |-> 0]

\* the POST of __next__
NextPageRequest(ps, ck) ==
    [method |-> "POST", target |-> PagerNextControl, token |-> ps, cookie |-> ck,
     size |-> 0]

\* a POST response is a page when it is served with a token that differs
\* from the token posted
IsPage(req, r) == r.status = 200 /\ r.token # NoToken /\ r.token # req.token

\* The termination signal the specification names for response r to a POST
\* that carried token ps, tested in the specification's order: "none" when
\* the response is a page to return, "bad_status" when it is a transport error.
SpecSignal(r, ps, shown, seen) ==
    LET raw == ExtractLinks(r.hrefs)
    IN IF r.status = 500 THEN "status_500"
       ELSE IF r.status # 200 THEN "bad_status"
       ELSE IF r.token = NoToken THEN "no_token"
       ELSE IF r.token = ps THEN "same_token"
       ELSE IF raw = shown THEN "same_links"
       ELSE IF \A i \in 1..Len(raw) : raw[i] \in seen THEN "no_new_links"
       ELSE "none"

RecordPost(req, r) ==
    LET raw == ExtractLinks(r.hrefs)
    IN IF IsPage(req, r)
          THEN /\ nPages' = nPages + 1
               /\ postLinks' = postLinks \cup SeqToSet(raw)
               /\ distinctPosts' = (/\ distinctPosts
                                    /\ NoDuplicates(raw)
                                    /\ SeqToSet(raw) \cap postLinks = {})
               /\ UNCHANGED stalls
          ELSE /\ stalls' = stalls + 1
               /\ UNCHANGED <<nPages, postLinks, distinctPosts>>

\* `if self.previous_links is None`: the first call of __next__
IsFirstCallNever(prev) == FALSE
IsFirstCall(prev) == prev = None

StopSignalNoAssert(r, ps, prev, seen) ==
    LET raw == ExtractLinks(r.hrefs)
    IN IF r.status # 200 THEN "status_500"
       ELSE IF r.token = NoToken THEN "no_token"
       ELSE IF ps = r.token THEN "same_token"
       ELSE IF prev = Some(raw) THEN "same_links"
       ELSE IF DeduplicateLinks(raw, seen) = <<>> THEN "no_new_links"
       ELSE "none"

\* the tests of __next__ on the response r, in the order of the code
StopSignal(r, ps, prev, seen) ==
    LET raw == ExtractLinks(r.hrefs)
    IN IF r.status = 500 THEN "status_500"
       ELSE IF r.status # 200 THEN "assert"
       ELSE IF r.token = NoToken THEN "no_token"
       ELSE IF ps = r.token THEN "same_token"
       ELSE IF prev = Some(raw) THEN "same_links"
       ELSE IF DeduplicateLinks(raw, seen) = <<>> THEN "no_new_links"
       ELSE "none"

\* `raise StopIteration` comes before the assignments of __next__: an
\* attribute keeps its value when the sequence ends
TakenOnStop(old, new) == new

KeptOnStop(old, new) == old

\* the search session before its first request
NoSession == [status |-> 0, token |-> NoToken, cookie |-> NoCookie, replayed |-> TRUE]

\* the search session after a POST that carried req and was answered by r;
\* advanced tells whether the iterator took the response as its new page
Answered(ses, req, r, advanced) ==
    [status |-> r.status,
     token |-> IF advanced THEN r.token ELSE ses.token,
     cookie |-> ses.cookie,
     replayed |-> ses.replayed /\ req.token = ses.token /\ req.cookie = ses.cookie]

\* __init__(links); hasLinks is `links is not None`
InitIterator(hasLinks, given) ==
    LET seen0 == IF hasLinks THEN SeqToSet(given) ELSE {}
    IN
    /\ seeded' = IF hasLinks THEN Some(given) ELSE None
    /\ \E g \in SearchGetResponses :
         IF g.status # 200 \/ g.token = NoToken \/ g.cookie = NoCookie
         THEN \* AssertionError, RuntimeError or KeyError of _initialize_state
              /\ pc' = "error"
              /\ requests' = <<Logged(GetRequest)>>
              /\ session' = [NoSession EXCEPT !.status = g.status]
              /\ UNCHANGED <<iterVars, displayed, postings, outcome, emitted, signal,
                             specSignal, firstPage, postLinks, distinctPosts, nPages,
                             stalls>>
         ELSE LET req == IncrementRequest(g.token, g.cookie, 20)
              IN \E p \in SearchPostResponses(req, ExtractLinks(g.hrefs)) :
                   /\ requests' = <<Logged(GetRequest), Logged(req)>>
                   /\ session' = Answered([NoSession EXCEPT !.token = g.token,
                                                            !.cookie = g.cookie],
                                          req, p, p.status = 200 /\ p.token # NoToken)
                   /\ firstPage' = ExtractLinks(g.hrefs)
                   /\ RecordPost(req, p)
                   /\ UNCHANGED <<postings, outcome, emitted, signal, specSignal>>
                   /\ IF p.status # 200 \/ p.token = NoToken
                      THEN \* AssertionError or RuntimeError of _increment_state
                           /\ pc' = "error"
                           /\ UNCHANGED <<iterVars, displayed>>
                      ELSE /\ pc' = "ready"
                           /\ displayed' = ExtractLinks(p.hrefs)
                           /\ links' = DeduplicateLinks(ExtractLinks(p.hrefs), seen0)
                           /\ page_state' = p.token
                           /\ cookie' = g.cookie
                           /\ previous_links' = None
                           /\ exhausted' = FALSE
                           /\ seen_links' = SeqToSet(links')
                           /\ batch_index' = 0
                           /\ num_new_links' = 0
                           /\ num_iterations' = 0

\* PlacePostingIterator()
Construct ==
    /\ pc = "new"
    /\ InitIterator(FALSE, <<>>)
    /\ UNCHANGED <<libVars, batchVars, discVars, retrVars>>

\* PlacePostingIterator.from_storage(storage)
FromStorage ==
    /\ pc = "new"
    /\ LET stored == list_postings(ListLimit)
       IN InitIterator(TRUE, [i \in 1..Len(stored) |-> stored[i].url])
    /\ UNCHANGED <<libVars, batchVars, discVars, retrVars>>

\* `if self._exhausted`, the first test of __next__
IsExhaustedNever(flag) == FALSE
IsExhausted(flag) == flag

\* __next__: sets outcome' to "batch", "stop" (StopIteration) or "error"
DunderNext ==
    IF IsExhausted(exhausted)
    THEN /\ outcome' = "stop"
         /\ specSignal' = "exhausted"
         /\ UNCHANGED <<iterVars, displayed, emitted, requests, signal, session,
                        firstPage, postLinks, distinctPosts, nPages, stalls>>
    ELSE IF IsFirstCall(previous_links)
    THEN /\ previous_links' = Some(links)
         /\ outcome' = "batch"
         /\ emitted' = Append(emitted, links)
         /\ specSignal' = "first"
         /\ UNCHANGED <<links, page_state, cookie, exhausted, seen_links, batch_index,
                        num_new_links, num_iterations, displayed, requests, session,
                        signal, firstPage, postLinks, distinctPosts, nPages,
                        stalls>>
    ELSE LET req == NextPageRequest(page_state, cookie)
         IN \E r \in SearchPostResponses(req, displayed) :
            LET raw == ExtractLinks(r.hrefs)
                deduped == DeduplicateLinks(raw, seen_links)
                stop == StopSignal(r, page_state, previous_links, seen_links)
            IN /\ requests' = Append(requests, Logged(req))
               /\ specSignal' = SpecSignal(r, page_state, displayed, seen_links)
               /\ RecordPost(req, r)
               /\ session' = Answered(session, req, r, stop = "none")
               /\ UNCHANGED firstPage
               /\ IF stop = "assert"
                  THEN /\ outcome' = "error"
                       /\ UNCHANGED <<iterVars, displayed, emitted, signal>>
                  ELSE IF stop # "none"
                  THEN /\ outcome' = "stop"
                       /\ exhausted' = TRUE
                       /\ signal' = stop
                       /\ page_state' = KeptOnStop(page_state, r.token)
                       /\ previous_links' = KeptOnStop(previous_links, Some(raw))
                       /\ seen_links' = KeptOnStop(seen_links,
                                                   seen_links \cup SeqToSet(deduped))
                       /\ UNCHANGED <<links, cookie, batch_index, num_new_links,
                                      num_iterations, displayed, emitted>>
                  ELSE /\ outcome' = "batch"
                       /\ links' = deduped
                       /\ page_state' = r.token
                       /\ cookie' = cookie
                       /\ previous_links' = Some(raw)
                       /\ seen_links' = seen_links \cup SeqToSet(deduped)
                       /\ batch_index' = batch_index + 1
                       /\ num_new_links' = num_new_links + Len(deduped)
                       /\ num_iterations' = num_iterations + 1
                       /\ emitted' = Append(emitted, deduped)
                       /\ displayed' = raw
                       /\ UNCHANGED <<exhausted, signal>>

\* for batch in iterator: one step of the for loop
IterateNext ==
    /\ pc = "ready"
    /\ DunderNext
    /\ pc' = CASE outcome' = "batch" -> "ready"
               [] outcome' = "stop" -> "done"
               [] OTHER -> "error"
    /\ UNCHANGED <<libVars, postings, seeded, batchVars, discVars, retrVars>>

(***************************************************************************)
(* iter_n_batches(n, ensure_n_new_links), a generator: the caller pulls,   *)
(* the generator runs to its next yield, to its end or to an error.        *)
(***************************************************************************)
\* the call: `if ensure_n_new_links is not None` chooses the loop
IterNBatches ==
    /\ pc = "ready"
    /\ \E n \in 0..MaxN, k \in {None} \cup {Some(x) : x \in 0..MaxK} :
         /\ arg_n' = n
         /\ ensure' = k
         /\ pc' = IF k # None THEN "while" ELSE "for_n"
    /\ UNCHANGED <<libVars, iterVars, displayed, postings, outcome, histVars, consumer, todo,
                   discVars, retrVars>>

\* `while self._num_new_links < ensure_n_new_links`
EnsureWhile ==
    /\ pc = "while"
    /\ pc' = IF num_new_links < ensure[1] THEN "for_ensure" ELSE "done"
    /\ UNCHANGED <<libVars, iterVars, displayed, postings, outcome, histVars, batchVars,
                   discVars, retrVars>>

\* what the caller has to process of a yielded batch
Yielded(batch) == IF consumer = "discover" THEN batch ELSE <<>>

\* `for batch in self: yield batch` inside the while loop
EnsureFor ==
    /\ pc = "for_ensure"
    /\ DunderNext
    /\ pc' = CASE outcome' = "batch" -> "yielded"
               [] outcome' = "stop" -> "while"
               [] OTHER -> "error"
    /\ todo' = IF outcome' = "batch" THEN Yielded(links') ELSE todo
    /\ UNCHANGED <<libVars, postings, seeded, consumer, arg_n, ensure, discVars, retrVars>>

\* `for batch in self: yield batch` of the else branch
PlainFor ==
    /\ pc = "for_n"
    /\ DunderNext
    /\ pc' = CASE outcome' = "batch" -> "yielded"
               [] outcome' = "stop" -> "done"
               [] OTHER -> "error"
    /\ todo' = IF outcome' = "batch" THEN Yielded(links') ELSE todo
    /\ UNCHANGED <<libVars, postings, seeded, consumer, arg_n, ensure, discVars, retrVars>>

EnoughNewPostingsNever(n) == FALSE

\* discover_new_postings: `ensure_n_new_links is not None and
\* len(new_postings) >= ensure_n_new_links`, the test of both its breaks
EnoughNewPostings(n) == ensure # None /\ n >= ensure[1]

\* the caller pulls again, unless it is discover_new_postings leaving its
\* loop: the generator resumes after its yield; in the else
\* branch with `if self._batch_index+1 >= n: break`
Resume ==
    /\ pc = "yielded"
    /\ todo = <<>>
    /\ pc' = IF consumer = "discover" /\ EnoughNewPostings(num_new_postings) THEN "done"
             ELSE IF ensure # None THEN "for_ensure"
             ELSE IF batch_index + 1 >= arg_n THEN "done" ELSE "for_n"
    /\ UNCHANGED <<libVars, iterVars, displayed, postings, outcome, histVars, batchVars,
                   discVars, retrVars>>

(***************************************************************************)
(* The posting pages and the files of the backend.                         *)
(***************************************************************************)
Kinds == {"dce", "reglement", "complement", "avis"}

\* the kinds of the links parse_posting_links finds on a posting page
ParsedLinkLists == {<<>>, <<"dce">>}

\* answers to the GET of a posting page: a page whose four labelled fields
\* parse_posting_info finds or not, or another status
PostingPageResponses ==
    {[status |-> 200, fields |-> "ok", info |-> "first", plinks |-> l] :
        l \in ParsedLinkLists}
        \cup {[status |-> 200, fields |-> "missing", info |-> "none", plinks |-> <<>>],
              [status |-> 404, fields |-> "missing", info |-> "none", plinks |-> <<>>]}

\* the page of a posting whose reference, title, description and
\* organization have been revised since the posting was first shown
RevisedPostingPages ==
    {[status |-> 200, fields |-> "ok", info |-> "revised", plinks |-> l] :
        l \in ParsedLinkLists}

\* session.commit(): the transaction is committed, or it fails and is lost
CommitOutcomes == {"committed", "OperationalError"}

\* answers to the request for a file: the connection fails, or a response
\* with a status and a Content-Disposition header that is absent, matches the
\* attachment pattern of the kind, or does not
FileResponses ==
    {[failed |-> TRUE, status |-> 0, disposition |-> "absent"]}
        \cup {[failed |-> FALSE, status |-> st, disposition |-> d] :
                st \in {200, 404}, d \in {"absent", "attachment", "other"}}

(***************************************************************************)
(* tasks/scrape/fetch.py                                                   *)
(***************************************************************************)
PostingIdOfFirst(link) == 1

\* match.groups()[0] of LINK_REGEX: the posting id of a posting URL; the
\* URLs of the model are told apart by their id
PostingId(link) == link

\* fetch_posting_page(link): "ok" or the exception
fetch_posting_page(link, page) ==
    IF ~MatchesLinkRegex(link) THEN "ValueError"
    ELSE IF page.status # 200 THEN "ValueError"
    ELSE "ok"

\* the four fetchers: "file" for a (filename, size), "none" for (None, None),
\* "raise" for an exception
fetch_dce_file(r) ==
    IF r.failed \/ r.status # 200 THEN "raise"
    ELSE IF r.disposition = "attachment" THEN "file" ELSE "none"

fetch_reglement_file(r) ==
    IF r.failed THEN "raise"
    ELSE IF r.disposition = "absent" THEN "none"
    ELSE IF r.disposition = "attachment" THEN "file"
    ELSE "raise"

fetch_complement_file(r) ==
    IF r.failed \/ r.status # 200 THEN "raise"
    ELSE IF r.disposition = "attachment" THEN "file" ELSE "raise"

fetch_avis_file(r) ==
    IF r.failed \/ r.status # 200 THEN "raise"
    ELSE IF r.disposition = "absent" THEN "none"
    ELSE IF r.disposition = "attachment" THEN "file"
    ELSE "raise"

ProcedureOfDce(kind) == "fetch_dce_file"

\* the procedure PostingFileFetcher.__call__ routes a kind to, through the
\* static method of the kind's name
Procedure(kind) ==
    CASE kind = "dce" -> "fetch_dce_file"
      [] kind = "reglement" -> "fetch_reglement_file"
      [] kind = "complement" -> "fetch_complement_file"
      [] kind = "avis" -> "fetch_avis_file"
      [] OTHER -> "none"

\* the result of a procedure whose request is answered by r
Run(procedure, r) ==
    CASE procedure = "fetch_dce_file" -> fetch_dce_file(r)
      [] procedure = "fetch_reglement_file" -> fetch_reglement_file(r)
      [] procedure = "fetch_complement_file" -> fetch_complement_file(r)
      [] procedure = "fetch_avis_file" -> fetch_avis_file(r)

\* PostingFileFetcher.__call__(kind, link); ValueError for an unknown kind
Fetcher(kind, r) ==
    IF kind \notin {"dce", "reglement", "complement", "avis"} THEN "raise"
    ELSE Run(Procedure(kind), r)

(***************************************************************************)
(* tasks/scrape/fetch.py: one call of PostingFileFetcher, request by       *)
(* request.                                                                *)
(***************************************************************************)
\* the Set-Cookie values of the backend
Cookies == {SessionCookie, SessionCookie + 1}

\* a response: the connection failed, or a status, the PRADO_PAGESTATE of the
\* body, the Set-Cookie, Content-Type and Content-Disposition headers
Response(f, st, t, c, ct, d) ==
    [failed |-> f, status |-> st, token |-> t, cookie |-> c, ctype |-> ct,
     disposition |-> d]

ConnectionFailure == Response(TRUE, 0, NoToken, NoCookie, "absent", "absent")

\* answers to steps 1 and 2 of the DCE flow
DcePageResponses ==
    {ConnectionFailure} \cup
    {Response(FALSE, st, t, c, "other", "absent") :
        st \in {200, 404}, t \in Tokens \cup {NoToken}, c \in Cookies \cup {NoCookie}}

\* answers to step 3 of the DCE flow and to the GET of the other kinds
DownloadResponses ==
    {ConnectionFailure} \cup
    {Response(FALSE, st, NoToken, NoCookie, ct, d) :
        st \in {200, 404}, ct \in {"zip", "other", "absent"},
        d \in {"absent", "attachment", "other"}}

DceUrl == "EntrepriseDemandeTelechargementDce"
ValidateButton == "ctl0$CONTENU_PAGE$validateButton"
CompleteDownload == "ctl0$CONTENU_PAGE$EntrepriseDownloadDce$completeDownload"

Request(m, target, t, c) == [method |-> m, target |-> target, token |-> t, cookie |-> c]

FetcherIdle ==
    [pc |-> "idle", kind |-> "none", procedure |-> "none",
     requests |-> <<>>, responses |-> <<>>,
     page_state |-> NoToken, cookie |-> NoCookie, sink |-> <<>>, result |-> "none"]

\* the call ends: with (filename, size), with (None, None) or with an exception
Ended(f, res) == [f EXCEPT !.pc = "done", !.result = res]

\* a request is sent and answered
Exchange(f, req, r) ==
    [f EXCEPT !.requests = Append(@, req), !.responses = Append(@, r)]

\* re.search(page_state_regex, response.text) finds a token
HasPageStateAlways(r) == TRUE

HasPageState(r) == r.token # NoToken

\* `page_state = match_page_state_after_validation.groups()[0]`
PageStateKept(old, r) == old

PageStateAfterValidation(old, r) == r.token

\* PostingFileFetcher.__call__(kind, link): the dispatch
CallFetcher ==
    /\ fetcher.pc \in {"idle", "done"}
    /\ \E kind \in Kinds \cup {"dume"} :
         fetcher' =
            IF kind \notin Kinds
            THEN Ended([FetcherIdle EXCEPT !.kind = kind], "raise")
            ELSE [FetcherIdle EXCEPT !.kind = kind,
                                     !.procedure = Procedure(kind),
                                     !.pc = IF Procedure(kind) = "fetch_dce_file"
                                            THEN "dce_get" ELSE "get"]
    /\ UNCHANGED <<libVars, iterVars, displayed, postings, pc, outcome, histVars, batchVars,
                   discVars, plinks, link_status, rpc, records, idx, num_success, num_failure,
                   fetchLog, pendingAtStart, lastFetch>>

\* fetch_dce_file, step 1: GET of the confirmation page
DceGet ==
    /\ fetcher.pc = "dce_get"
    /\ \E r \in DcePageResponses :
         LET f == Exchange(fetcher, Request("GET", DceUrl, NoToken, NoCookie), r)
         IN fetcher' =
               IF r.failed \/ r.status # 200 THEN Ended(f, "raise")
               ELSE IF ~HasPageState(r) THEN Ended(f, "raise")
               ELSE IF r.cookie = NoCookie THEN Ended(f, "raise")
               ELSE [f EXCEPT !.pc = "dce_validate", !.page_state = r.token,
                              !.cookie = r.cookie]
    /\ UNCHANGED <<libVars, iterVars, displayed, postings, pc, outcome, histVars, batchVars,
                   discVars, plinks, link_status, rpc, records, idx, num_success, num_failure,
                   fetchLog, pendingAtStart, lastFetch>>

\* fetch_dce_file, step 2: POST of the anonymous requester
DceValidate ==
    /\ fetcher.pc = "dce_validate"
    /\ \E r \in DcePageResponses :
         LET f == Exchange(fetcher, Request("POST", ValidateButton,
                                            fetcher.page_state, fetcher.cookie), r)
         IN fetcher' =
               IF r.failed \/ r.status # 200 THEN Ended(f, "raise")
               ELSE IF ~HasPageState(r) THEN Ended(f, "raise")
               ELSE [f EXCEPT !.pc = "dce_download",
                              !.page_state = PageStateAfterValidation(@, r)]
    /\ UNCHANGED <<libVars, iterVars, displayed, postings, pc, outcome, histVars, batchVars,
                   discVars, plinks, link_status, rpc, records, idx, num_success, num_failure,
                   fetchLog, pendingAtStart, lastFetch>>

\* fetch_dce_file, step 3: POST of the complete download; is_zip_file reads
\* the Content-Type header, the filename comes from Content-Disposition
DceDownload ==
    /\ fetcher.pc = "dce_download"
    /\ \E r \in DownloadResponses :
         LET f == Exchange(fetcher, Request("POST", CompleteDownload,
                                            fetcher.page_state, fetcher.cookie), r)
         IN fetcher' =
               IF r.failed \/ r.status # 200 THEN Ended(f, "raise")
               ELSE IF r.ctype = "absent" THEN Ended(f, "raise")
               ELSE IF fetch_dce_file(r) = "file"
                    THEN Ended([f EXCEPT !.sink = Append(@, "filename")], "file")
                    ELSE Ended(f, fetch_dce_file(r))
    /\ UNCHANGED <<libVars, iterVars, displayed, postings, pc, outcome, histVars, batchVars,
                   discVars, plinks, link_status, rpc, records, idx, num_success, num_failure,
                   fetchLog, pendingAtStart, lastFetch>>

\* what fetch_reglement_file, fetch_complement_file and fetch_avis_file hand
\* to file_writer: nothing, a filename, or None as the filename
SinkCall(procedure, r) ==
    IF r.failed THEN "no"
    ELSE IF r.disposition = "attachment"
         THEN (IF procedure = "fetch_reglement_file" \/ r.status = 200
               THEN "filename" ELSE "no")
    ELSE IF procedure = "fetch_reglement_file" /\ r.disposition = "other" THEN "null"
    ELSE "no"

\* fetch_reglement_file, fetch_complement_file, fetch_avis_file: one GET
FileGet ==
    /\ fetcher.pc = "get"
    /\ \E r \in DownloadResponses :
         LET f == Exchange(fetcher, Request("GET", "link", NoToken, NoCookie), r)
             written == IF SinkCall(fetcher.procedure, r) = "no" THEN f
                        ELSE [f EXCEPT !.sink = Append(@, SinkCall(fetcher.procedure, r))]
         IN fetcher' = Ended(written, Run(fetcher.procedure, r))
    /\ UNCHANGED <<libVars, iterVars, displayed, postings, pc, outcome, histVars, batchVars,
                   discVars, plinks, link_status, rpc, records, idx, num_success, num_failure,
                   fetchLog, pendingAtStart, lastFetch>>

(***************************************************************************)
(* tasks/scrape/parse.py: the posting page.  A page is what BeautifulSoup  *)
(* finds in it: the elements of class "col-md-10 text-justify", each with  *)
(* the text of its label and of its span, in document order.               *)
(***************************************************************************)
\* the labels parse_posting_info expects, in their order (accents left out)
Labels == <<"Reference :", "Intitule :", "Objet :", "Organisme :">>
Fields == <<"reference", "title", "description", "organization">>

\* an element of the class: the text of its label, "none" without a label;
\* the text of the span of its div, which may be empty, "none" without a span
\* (an element without a div raises too, an AttributeError)
Sections ==
    [label : {"none"} \cup SeqToSet(Labels), value : {"none", "", "text"}]

\* the pages with n elements of the class
InfoPages(n) == [1..n -> Sections]

ParseErrors == {"IndexError", "ValueError"}

extract_field_unchecked(info_sections, i, label) ==
    IF i > Len(info_sections) THEN "" ELSE info_sections[i].value

\* extract_field(info_sections, idx, label), idx counted from 1: the text of
\* the value, or the exception
extract_field(info_sections, i, label) ==
    IF i > Len(info_sections) THEN "IndexError"
    ELSE IF info_sections[i].label # label THEN "ValueError"
    ELSE IF info_sections[i].value = "none" THEN "ValueError"
    ELSE info_sections[i].value

\* the result of a call: the exception raised ("none" for a return) and
\* the value returned
Raises(e) == [raised |-> e, value |-> <<>>]
Returns(v) == [raised |-> "none", value |-> v]

\* parse_posting_info(content): the four fields are extracted in order, the
\* first exception ends the call
parse_posting_info(info_sections) ==
    LET field(k) == extract_field(info_sections, k, Labels[k])
        failed == {i \in 1..4 : field(i) \in ParseErrors}
    IN IF failed # {}
       THEN Raises(field(CHOOSE i \in failed : \A j \in failed : i <= j))
       ELSE Returns([reference |-> field(1), title |-> field(2),
                     description |-> field(3), organization |-> field(4)])

\* a call of parse_posting_info on the page given to it
ParsePostingInfo ==
    /\ call.fn = "parse_posting_info"
    /\ call.result = None
    /\ call' = [call EXCEPT !.result = Some(parse_posting_info(call.arg))]
    /\ UNCHANGED <<iterVars, displayed, postings, pc, outcome, histVars, batchVars,
                   discVars, retrVars, extraction, instances>>

(***************************************************************************)
(* tasks/scrape/parse.py: the links of a posting page.  A page has the     *)
(* element of id 'pub' or not; the element holds anchors, each with its id *)
(* and href attributes, in document order.                                 *)
(***************************************************************************)
\* the id attribute of an anchor: "none" without one, "other" for an id
\* that names no kind
AnchorIds ==
    {"none", "other", "linkDownloadReglement", "linkDownloadDce", "linkDownloadAvis",
     "linkDownloadComplement", "linkDownloadDume"}

\* the href attribute of an anchor: "absent" without one, "" when empty, a
\* file URL, or the URL of a notice of the BOAMP gazette
AnchorHrefs == {"absent", "", "/file1", "/file2", "https://www.boamp.fr/avis/detail/1"}

Anchors == [id : AnchorIds, href : AnchorHrefs]

\* the pages whose element of id 'pub' holds n anchors, and for n = 0 the
\* page without such an element
LinkPages(n) ==
    {[pub |-> TRUE, anchors |-> a] : a \in [1..n -> Anchors]}
        \cup (IF n = 0 THEN {[pub |-> FALSE, anchors |-> <<>>]} ELSE {})

\* infer_link_type(link_id): the kind, "none" for None
infer_link_type(link_id) ==
    CASE link_id = "linkDownloadReglement" -> "reglement"
      [] link_id = "linkDownloadDce" -> "dce"
      [] link_id = "linkDownloadAvis" -> "avis"
      [] link_id = "linkDownloadComplement" -> "complement"
      [] link_id = "linkDownloadDume" -> "dume"
      [] OTHER -> "none"

\* `links` before the loop
NoLinks ==
    [reglement |-> <<>>, dce |-> <<>>, avis |-> <<>>, complement |-> <<>>, dume |-> <<>>]

SkipsUnclassified(inferred_link_type) == inferred_link_type = "none"

\* the two `continue` of the loop: `inferred_link_type is None` and
\* `inferred_link_type == 'dume'`
Skips(inferred_link_type) == inferred_link_type \in {"none", "dume"}

\* `for link in file_links` from anchor k on, with the lists found so far;
\* link.attrs['href'] raises KeyError for an anchor without href
RECURSIVE FileLinksFrom(_, _, _)
FileLinksFrom(file_links, k, found) ==
    IF k > Len(file_links) THEN Returns(found)
    ELSE LET link == file_links[k]
             inferred_link_type == infer_link_type(link.id)
         IN IF link.href = "absent" THEN Raises("KeyError")
            ELSE IF link.href = "" THEN FileLinksFrom(file_links, k + 1, found)
            ELSE IF Skips(inferred_link_type)
                 THEN FileLinksFrom(file_links, k + 1, found)
            ELSE FileLinksFrom(file_links, k + 1,
                               [found EXCEPT ![inferred_link_type] = Append(@, link.href)])

\* parse_posting_links(content)
parse_posting_links(content) ==
    IF ~content.pub THEN Raises("ValueError")
    ELSE FileLinksFrom(content.anchors, 1, NoLinks)

\* a call of parse_posting_links on the page given to it
ParsePostingLinks ==
    /\ call.fn = "parse_posting_links"
    /\ call.result = None
    /\ call' = [call EXCEPT !.result = Some(parse_posting_links(call.arg))]
    /\ UNCHANGED <<iterVars, displayed, postings, pc, outcome, histVars, batchVars,
                   discVars, retrVars, extraction, instances>>

(***************************************************************************)
(* tasks/store/writers.py: the names of the local archives.  A string is   *)
(* the sequence of its characters.                                         *)
(***************************************************************************)
DigitChars == <<"0", "1", "2", "3", "4", "5", "6", "7", "8", "9">>
LineBreak == "\n"
\* the characters of file names and kinds: a letter, the dot, the path
\* separator and the line break
NameChars == {"a", ".", "/", LineBreak}
\* the names of n characters
Names(n) == [1..n -> NameChars]

\* str(n) and int(s) (here IntOf) of a non-negative integer in decimal
RECURSIVE Str(_)
Str(n) == IF n < 10 THEN <<DigitChars[n + 1]>>
          ELSE Str(n \div 10) \o <<DigitChars[(n % 10) + 1]>>

DigitValue(c) == CHOOSE d \in 0..9 : DigitChars[d + 1] = c

RECURSIVE IntOf(_)
IntOf(s) == IF Len(s) = 1 THEN DigitValue(s[1])
          ELSE 10 * IntOf(SubSeq(s, 1, Len(s) - 1)) + DigitValue(s[Len(s)])

\* the positions of character c in s
Positions(s, c) == {i \in 1..Len(s) : s[i] = c}
Largest(S) == CHOOSE x \in S : \A y \in S : y <= x

\* Path(filename).name: the last component of the path; empty components
\* and components '.' do not count
RECURSIVE PathName(_)
PathName(s) ==
    IF s = <<>> THEN <<>>
    ELSE IF s[Len(s)] = "/" THEN PathName(SubSeq(s, 1, Len(s) - 1))
    ELSE LET seps == Positions(s, "/")
             start == IF seps = {} THEN 1 ELSE Largest(seps) + 1
             component == SubSeq(s, start, Len(s))
         IN IF component = <<".">> THEN PathName(SubSeq(s, 1, start - 1))
            ELSE component

\* Path(filename).stem: the name without its last suffix; a dot that
\* begins or ends the name starts no suffix
PathStem(s) ==
    LET name == PathName(s)
        dots == Positions(name, ".")
    IN IF dots # {} /\ 1 < Largest(dots) /\ Largest(dots) < Len(name)
       THEN SubSeq(name, 1, Largest(dots) - 1)
       ELSE name

DotZip == <<".", "z", "i", "p">>

local_archive_name_swapped(posting_id, filename, file_type) ==
    posting_id \o <<".">> \o file_type \o <<".">> \o PathStem(filename) \o DotZip

\* local_archive_name(posting_id, filename, file_type)
local_archive_name(posting_id, filename, file_type) ==
    posting_id \o <<".">> \o PathStem(filename) \o <<".">> \o file_type \o DotZip

\* re.match(r'^(\d+)\.(.*)\.(.*)\.zip$', archive_name): the dot matches any
\* character but the line break, `$` matches at the end and before a line
\* break that ends the string, the groups are greedy
IsDigits(s) == s # <<>> /\ \A i \in 1..Len(s) : s[i] \in SeqToSet(DigitChars)
NoLineBreak(s) == Positions(s, LineBreak) = {}

\* where '.zip' begins when it ends the name, 0 when it does not
ZipStart(name) ==
    LET n == IF name # <<>> /\ name[Len(name)] = LineBreak THEN Len(name) - 1
             ELSE Len(name)
    IN IF n >= 4 /\ SubSeq(name, n - 3, n) = DotZip THEN n - 3 ELSE 0

\* the pairs <<d, j>> of the dots that end group 1 and group 2
ArchiveNameSplits(name) ==
    LET e == ZipStart(name)
    IN {dj \in Positions(name, ".") \X Positions(name, ".") :
          /\ dj[1] < dj[2] /\ dj[2] < e
          /\ IsDigits(SubSeq(name, 1, dj[1] - 1))
          /\ NoLineBreak(SubSeq(name, dj[1] + 1, dj[2] - 1))
          /\ NoLineBreak(SubSeq(name, dj[2] + 1, e - 1))}

\* parse_archive_name(archive_name)
parse_archive_name(archive_name) ==
    LET splits == ArchiveNameSplits(archive_name)
        e == ZipStart(archive_name)
    IN IF splits = {} THEN Raises("ValueError")
       ELSE LET d == Largest({dj[1] : dj \in splits})
                j == Largest({dj[2] : dj \in {x \in splits : x[1] = d}})
            IN Returns(<<IntOf(SubSeq(archive_name, 1, d - 1)),
                         SubSeq(archive_name, d + 1, j - 1),
                         SubSeq(archive_name, j + 1, e - 1)>>)

\* parse_archive_name(local_archive_name(str(posting_id), filename, file_type))
ArchiveNameRoundTrip ==
    /\ call.fn = "archive_name"
    /\ call.result = None
    /\ call' = [call EXCEPT !.result =
                   Some(parse_archive_name(local_archive_name(
                            Str(call.arg.posting_id), call.arg.filename,
                            call.arg.file_type)))]
    /\ UNCHANGED <<iterVars, displayed, postings, pc, outcome, histVars, batchVars,
                   discVars, retrVars, extraction, instances>>

(***************************************************************************)
(* tasks/extract/markdown.py: extract_all_archives creates one task per    *)
(* archive and awaits asyncio.gather of them.  extract_markdown awaits     *)
(* nothing, so the event loop runs the tasks one after another in the      *)
(* order of their creation, and the gather is resumed once all have run.   *)
(***************************************************************************)
\* no call of extract_all_archives has been made
NoExtraction ==
    [pc |-> "idle", tasks |-> <<>>, contents |-> <<>>, result |-> <<>>, raised |-> "none"]

\* how the task of an archive ends: with its ArchiveContent, with the
\* ValueError of parse_archive_name, or with an exception of md.convert
TaskOutcomes == {"ok", "ValueError", "ConversionError"}

\* the tasks that have not run, and those that raised
Pending(tasks) == {i \in 1..Len(tasks) : tasks[i] = "pending"}
Failed(tasks) == {i \in 1..Len(tasks) : tasks[i] \notin {"pending", "ok"}}
Smallest(S) == CHOOSE x \in S : \A y \in S : x <= y

\* extract_all_archives(directory), up to its await: the tasks are created
ExtractAllArchives ==
    /\ extraction.pc = "idle"
    /\ \E n \in 0..MaxArchives :
         extraction' = [NoExtraction EXCEPT !.pc = "gather",
                                            !.tasks = [i \in 1..n |-> "pending"]]
    /\ UNCHANGED <<iterVars, displayed, postings, pc, outcome, histVars, batchVars,
                   discVars, retrVars, call, instances>>

\* extract_markdown(archive_path) of the next task: record_archive_content
\* stores the content before the ArchiveContent is returned
ExtractMarkdown ==
    /\ extraction.pc = "gather"
    /\ Pending(extraction.tasks) # {}
    /\ \E o \in TaskOutcomes :
         LET k == Smallest(Pending(extraction.tasks))
         IN extraction' = [extraction EXCEPT
                              !.tasks[k] = o,
                              !.contents = IF o = "ok" THEN Append(@, k) ELSE @]
    /\ UNCHANGED <<iterVars, displayed, postings, pc, outcome, histVars, batchVars,
                   discVars, retrVars, call, instances>>

\* the results asyncio.gather(*futures) gives when no task raised: one per
\* task, in the order of the tasks
GatherResults(tasks) == [i \in 1..Len(tasks) |-> i]

\* `await asyncio.gather(*futures)` is resumed: the first exception raised
\* by a task is raised in extract_all_archives, else the list is returned
Gather ==
    /\ extraction.pc = "gather"
    /\ Pending(extraction.tasks) = {}
    /\ extraction' =
          IF Failed(extraction.tasks) # {}
          THEN [extraction EXCEPT
                   !.pc = "raised",
                   !.raised = extraction.tasks[Smallest(Failed(extraction.tasks))]]
          ELSE [extraction EXCEPT !.pc = "returned",
                                  !.result = GatherResults(extraction.tasks)]
    /\ UNCHANGED <<iterVars, displayed, postings, pc, outcome, histVars, batchVars,
                   discVars, retrVars, call, instances>>

(***************************************************************************)
(* storage/local/queries.py, continued                                     *)
(***************************************************************************)
is_posting_present_never(posting_id) == FALSE

\* is_posting_present(posting_id)
is_posting_present(posting_id) == posting_id \in DOMAIN postings

is_stored_always(posting_id) == TRUE

\* a Posting row with this id exists
is_stored(posting_id) == posting_id \in DOMAIN postings

\* session.add(row); session.commit() of a row with primary key k
Insert(table, k, row) ==
    [x \in DOMAIN table \cup {k} |-> IF x = k THEN row ELSE table[x]]

\* update_posting_fetching_status(posting_id, status)
update_posting_fetching_status(posting_id, status) ==
    [postings EXCEPT ![posting_id].fetching_status = status]

DefaultLinkStatusSuccess == "success"

\* PostingLink.fetching_status: Field(default=FetchingStatus.PENDING)
DefaultLinkStatus == "pending"

\* the links of a posting that satisfy
\* `.where(PostingLink.fetching_status == FetchingStatus.PENDING)`
PendingLinksOf(id) ==
    SelectSeq([i \in 1..Len(plinks[id]) |-> <<id, i>>],
              LAMBDA pair : link_status[id][pair[2]] = "pending")

\* get_pending_links(): the (posting, link) pairs of the join whose link is
\* pending
RECURSIVE PairsOf(_)
PairsOf(ids) ==
    IF ids = <<>> THEN <<>>
    ELSE PendingLinksOf(Head(ids)) \o PairsOf(Tail(ids))

get_pending_links == PairsOf(SortedIds(DOMAIN postings))

(***************************************************************************)
(* workflows/metadata.py                                                   *)
(***************************************************************************)
\* a Posting row as it is first stored: info stands for its reference,
\* title, description, organization and org_acronym
PostingRow(u) == [url |-> u, info |-> "first", fetching_status |-> "pending"]

\* Posting(**posting_info, org_acronym=..., id=..., url=response.url)
PostingOf(u, page) == [PostingRow(u) EXCEPT !.info = page.info]

\* the PostingLink rows fetch_persist_posting builds from the dictionary of
\* parse_posting_links: `for kind, links in posting_links.items() for link in
\* links`, the kinds in the order of the dictionary
PostingLinksOf(posting_links) ==
    LET rows(kind) == [i \in 1..Len(posting_links[kind]) |->
                          [kind |-> kind, url |-> posting_links[kind][i]]]
    IN rows("reglement") \o rows("dce") \o rows("avis") \o rows("complement")
          \o rows("dume")

\* the PostingLink rows fetch_persist_posting builds from the parsed links
PostingLinkRowsNone(page) == <<>>

PostingLinkRows(page) == page.plinks

\* session.add_all(links) for a posting: the rows are added to its links
add_rows(table, posting_id, rows) ==
    IF posting_id \in DOMAIN table
    THEN [table EXCEPT ![posting_id] = @ \o rows]
    ELSE Insert(table, posting_id, rows)

add_links(posting_id, rows) == add_rows(plinks, posting_id, rows)

\* the fetching_status of the PostingLink rows built for these links: none is
\* given, so each row takes the default of the column
StatusOfNew(rows) == [i \in 1..Len(rows) |-> DefaultLinkStatus]

\* fetch_persist_posting(response, posting_id): None for a posting that is
\* present, else the parse of the page (the ValueError of extract_field for a
\* page without its labelled fields) and the insert of the posting and its
\* links in one transaction
fetch_persist_posting(posting_id, page, commit) ==
    IF is_posting_present(posting_id) THEN "skipped"
    ELSE IF page.fields # "ok" THEN "ValueError"
    ELSE IF posting_id \in DOMAIN postings THEN "IntegrityError"
    ELSE IF commit # "committed" THEN commit
    ELSE "created"

\* _fetch_and_persist_if_new(link)
fetch_and_persist_if_new(link, page, commit) ==
    IF fetch_posting_page(link, page) # "ok" THEN fetch_posting_page(link, page)
    ELSE IF is_posting_present(PostingId(link)) THEN "skipped"
    ELSE fetch_persist_posting(PostingId(link), page, commit)

\* whether the transaction of fetch_persist_posting was committed
CommitsAlways(res) == TRUE

Commits(res) == res = "created"

\* one round of `for link in posting_links` of discover_new_postings
ProcessLink ==
    /\ pc = "yielded"
    /\ todo # <<>>
    /\ \E page \in PostingPageResponses, commit \in CommitOutcomes :
         LET link == Head(todo)
             id == PostingId(link)
             res == fetch_and_persist_if_new(link, page, commit)
             created == Commits(res)
             n == IF res = "created" THEN num_new_postings + 1 ELSE num_new_postings
         IN /\ postings' = IF created THEN Insert(postings, id, PostingOf(link, page))
                           ELSE postings
            /\ plinks' = IF created THEN add_links(id, PostingLinkRows(page)) ELSE plinks
            /\ link_status' = IF created
                               THEN add_rows(link_status, id,
                                             StatusOfNew(PostingLinkRows(page)))
                               ELSE link_status
            /\ num_new_postings' = n
            /\ processed' = IF fetch_posting_page(link, page) = "ok"
                            THEN processed \cup {id} ELSE processed
            /\ storedFetch' = IF ~is_stored(id) \/ ~MatchesLinkRegex(link) THEN storedFetch
                              ELSE IF fetch_posting_page(link, page) = "ok"
                                   THEN (IF storedFetch = "none" THEN "fetched" ELSE storedFetch)
                                   ELSE "failed"
            /\ pageLinks' = IF res = "created" THEN Insert(pageLinks, id, page.plinks)
                            ELSE pageLinks
            /\ IF res \notin {"created", "skipped"}
               THEN raised' = res /\ pc' = "error" /\ todo' = todo
               ELSE /\ raised' = raised
                    /\ IF EnoughNewPostings(n)
                       THEN pc' = "done" /\ todo' = <<>>
                       ELSE pc' = pc /\ todo' = Tail(todo)
    /\ UNCHANGED <<libVars, iterVars, displayed, outcome, histVars, consumer, arg_n, ensure,
                   stored0, store_op, rpc, records, idx, num_success, num_failure,
                   fetchLog, pendingAtStart, lastFetch, fetcher>>

(***************************************************************************)
(* workflows/metadata.py: discovery instances that share the store.  Each  *)
(* instance is a process with its own connection; the steps of             *)
(* _fetch_and_persist_if_new of different instances interleave at the      *)
(* statements that reach the portal or the database.                       *)
(***************************************************************************)
Instances == 1..NumInstances

NoPage == [status |-> 0, fields |-> "missing", info |-> "none", plinks |-> <<>>]

InstanceIdle == [pc |-> "idle", link |-> OtherHref, page |-> NoPage, result |-> "none"]

\* the instance leaves _fetch_and_persist_if_new: with the new posting
\* ("created"), with None ("skipped") or with the exception
Leaves(inst, res) == [inst EXCEPT !.pc = "done", !.result = res]

InsertOutcomeNoKey(posting_id, commit) ==
    IF commit # "committed" THEN commit ELSE "created"

\* session.add_all([posting, *posting_links]); session.commit(): Posting.id
\* is the primary key, so the insert of an id that has a row fails
InsertOutcome(posting_id, commit) ==
    IF posting_id \in DOMAIN postings THEN "IntegrityError"
    ELSE IF commit # "committed" THEN commit
    ELSE "created"

InstanceUnchanged ==
    UNCHANGED <<iterVars, displayed, pc, outcome, histVars, batchVars, discVars,
                call, extraction, rpc, records, idx, num_success, num_failure,
                fetchLog, pendingAtStart, lastFetch, fetcher>>

\* fetch.fetch_posting_page(link) for a link of the batch of the instance
InstanceFetchPage ==
    /\ \E i \in Instances, link \in PostingUrls, page \in PostingPageResponses :
         /\ instances[i].pc = "idle"
         /\ instances' = [instances EXCEPT ![i] =
               IF fetch_posting_page(link, page) # "ok"
               THEN Leaves([@ EXCEPT !.link = link], fetch_posting_page(link, page))
               ELSE [@ EXCEPT !.pc = "fetched", !.link = link, !.page = page]]
    /\ UNCHANGED <<postings, plinks, link_status>>
    /\ InstanceUnchanged

\* `if is_posting_present(posting_id, session): return None`
InstanceCheck ==
    /\ \E i \in Instances :
         /\ instances[i].pc = "fetched"
         /\ instances' = [instances EXCEPT ![i] =
               IF is_posting_present(PostingId(@.link)) THEN Leaves(@, "skipped")
               ELSE [@ EXCEPT !.pc = "checked"]]
    /\ UNCHANGED <<postings, plinks, link_status>>
    /\ InstanceUnchanged

\* fetch_persist_posting up to the insert: its own presence check on a new
\* connection, then the parse of the page
InstanceCheckAgain ==
    /\ \E i \in Instances :
         /\ instances[i].pc = "checked"
         /\ instances' = [instances EXCEPT ![i] =
               IF is_posting_present(PostingId(@.link)) THEN Leaves(@, "skipped")
               ELSE IF @.page.fields # "ok" THEN Leaves(@, "ValueError")
               ELSE [@ EXCEPT !.pc = "parsed"]]
    /\ UNCHANGED <<postings, plinks, link_status>>
    /\ InstanceUnchanged

\* fetch_persist_posting: the insert of the posting and its links
InstanceCommit ==
    /\ \E i \in Instances, commit \in CommitOutcomes :
         LET inst == instances[i]
             id == PostingId(inst.link)
             res == InsertOutcome(id, commit)
             rows == PostingLinkRows(inst.page)
         IN /\ inst.pc = "parsed"
            /\ instances' = [instances EXCEPT ![i] = Leaves(@, res)]
            /\ postings' = IF Commits(res) THEN Insert(postings, id, PostingOf(id, inst.page))
                           ELSE postings
            /\ plinks' = IF Commits(res) THEN add_links(id, rows) ELSE plinks
            /\ link_status' = IF Commits(res)
                               THEN add_rows(link_status, id, StatusOfNew(rows))
                               ELSE link_status
    /\ InstanceUnchanged

\* a table without the row of key k
Without(table, k) == [x \in DOMAIN table \ {k} |-> table[x]]

\* whether the SQLite connection enforces foreign keys, so that the
\* ON DELETE CASCADE of PostingLink.posting_id acts: connect_to_db sets no
\* pragma, which leaves it to the default of the SQLite build
ForeignKeyEnforcement == BOOLEAN

\* remove_posting(id) on a connection that enforces foreign keys or not: the
\* ValueError for an id without a row, else the delete and the commit
RemovePostingOf(id, fk) ==
    IF ~is_stored(id)
    THEN /\ store_op' = "ValueError"
         /\ UNCHANGED <<postings, plinks, link_status>>
    ELSE /\ store_op' = "removed"
         /\ postings' = Without(postings, id)
         /\ plinks' = IF fk THEN Without(plinks, id) ELSE plinks
         /\ link_status' = IF fk THEN Without(link_status, id) ELSE link_status

\* remove_posting(posting_id), called by the CLI; the commands of the CLI
\* run one after another, so no retrieval is in its loop
RemovePosting ==
    /\ rpc # "running"
    /\ ~(lastFetch # None /\ lastFetch[1].state = "running")
    /\ \E id \in 1..MaxPostings, fk \in ForeignKeyEnforcement : RemovePostingOf(id, fk)
    /\ UNCHANGED <<libVars, iterVars, displayed, pc, outcome, histVars, batchVars,
                   num_new_postings, raised, stored0, processed, storedFetch,
                   pageLinks, rpc, records, idx, num_success, num_failure,
                   fetchLog, pendingAtStart, lastFetch, fetcher>>

\* the values of FetchingStatus
FetchingStatuses == {"pending", "success", "failure"}

\* update_posting_fetching_status(id, status) called on its own: the
\* ValueError for an id without a row, else the update and the commit
UpdateStatusOf(id, status) ==
    IF ~is_stored(id)
    THEN /\ store_op' = "ValueError"
         /\ UNCHANGED postings
    ELSE /\ store_op' = "updated"
         /\ postings' = update_posting_fetching_status(id, status)

UpdatePostingFetchingStatus ==
    /\ rpc # "running"
    /\ ~(lastFetch # None /\ lastFetch[1].state = "running")
    /\ \E id \in 1..MaxPostings, status \in FetchingStatuses : UpdateStatusOf(id, status)
    /\ UNCHANGED <<libVars, iterVars, displayed, pc, outcome, histVars, batchVars,
                   num_new_postings, raised, stored0, processed, storedFetch,
                   pageLinks, plinks, link_status, rpc, records, idx, num_success, num_failure,
                   fetchLog, pendingAtStart, lastFetch, fetcher>>

\* fetch_persist_posting(response, posting_id) for the page of a posting
PersistPosting ==
    /\ \E id \in 1..MaxPostings, page \in PostingPageResponses \cup RevisedPostingPages,
          commit \in CommitOutcomes :
         LET res == fetch_persist_posting(id, page, commit)
             rows == PostingLinkRows(page)
         IN /\ page.status = 200
            /\ id \in DOMAIN plinks => Len(plinks[id]) + Len(rows) <= MaxLinkRows
            /\ store_op' = res
            /\ postings' = IF Commits(res) THEN Insert(postings, id, PostingOf(id, page))
                           ELSE postings
            /\ plinks' = IF Commits(res) THEN add_links(id, rows) ELSE plinks
            /\ link_status' = IF Commits(res)
                               THEN add_rows(link_status, id, StatusOfNew(rows))
                               ELSE link_status
    /\ UNCHANGED <<libVars, iterVars, displayed, pc, outcome, histVars, batchVars,
                   num_new_postings, raised, stored0, processed, storedFetch,
                   pageLinks, rpc, records, idx, num_success, num_failure,
                   fetchLog, pendingAtStart, lastFetch, fetcher>>

(***************************************************************************)
(* workflows/files.py                                                      *)
(***************************************************************************)
\* fetch_posting_files(posting) runs in three kinds of steps.
\* how fetch_posting_files goes on after a fetch: `raise e` for an exception
FetchStateRunning(res) == "running"

FetchStateAfter(res) == IF res = "raise" THEN "raised" ELSE "running"

\* whether a call of fetch_posting_files is in its loop
FetchRunning == lastFetch # None /\ lastFetch[1].state = "running"

\* fetch_posting_files(posting), up to its loop; nothing is left of an
\* earlier bulk retrieval but the store
FetchPostingFiles ==
    /\ rpc # "running"
    /\ ~FetchRunning
    /\ \E id \in DOMAIN postings :
         lastFetch' = Some([id |-> id, log |-> <<>>, state |-> "running"])
    /\ rpc' = "idle" /\ records' = <<>> /\ idx' = 1
    /\ num_success' = 0 /\ num_failure' = 0
    /\ fetchLog' = <<>> /\ pendingAtStart' = FALSE
    /\ UNCHANGED <<libVars, iterVars, displayed, postings, pc, outcome, histVars, batchVars,
                   discVars, plinks, link_status, fetcher>>

\* one round of `for link in links`: an exception marks the posting Failure
\* and is raised again
FetchLinkStep ==
    /\ FetchRunning
    /\ Len(lastFetch[1].log) < Len(plinks[lastFetch[1].id])
    /\ \E r \in FileResponses :
         LET f == lastFetch[1]
             res == Fetcher(plinks[f.id][Len(f.log) + 1], r)
         IN /\ lastFetch' = Some([f EXCEPT !.log = Append(@, res),
                                          !.state = FetchStateAfter(res)])
            /\ postings' = IF res = "raise"
                           THEN update_posting_fetching_status(f.id, "failure")
                           ELSE postings
    /\ UNCHANGED <<libVars, iterVars, displayed, pc, outcome, histVars, batchVars,
                   discVars, plinks, link_status, rpc, records, idx, num_success, num_failure,
                   fetchLog, pendingAtStart, fetcher>>

\* after the loop: the posting is marked Success, the links are returned
FetchPostingFilesReturn ==
    /\ FetchRunning
    /\ Len(lastFetch[1].log) >= Len(plinks[lastFetch[1].id])
    /\ postings' = update_posting_fetching_status(lastFetch[1].id, "success")
    /\ lastFetch' = Some([lastFetch[1] EXCEPT !.state = "returned"])
    /\ UNCHANGED <<libVars, iterVars, displayed, pc, outcome, histVars, batchVars,
                   discVars, plinks, link_status, rpc, records, idx, num_success, num_failure,
                   fetchLog, pendingAtStart, fetcher>>

\* download_pending_files(), up to its loop
DownloadPendingFiles ==
    /\ rpc # "running"
    /\ ~FetchRunning
    /\ rpc' = "running"
    /\ records' = get_pending_links
    /\ idx' = 1
    /\ num_success' = 0 /\ num_failure' = 0
    /\ fetchLog' = <<>>
    /\ pendingAtStart' = \A id \in DOMAIN postings :
                            postings[id].fetching_status = "pending"
    /\ lastFetch' = None
    /\ UNCHANGED <<libVars, iterVars, displayed, postings, pc, outcome, histVars, batchVars,
                   discVars, plinks, link_status, fetcher>>

\* one round of `for posting, link in records`
DownloadStep ==
    /\ rpc = "running"
    /\ idx <= Len(records)
    /\ \E r \in FileResponses :
         LET id == records[idx][1]
             kind == plinks[id][records[idx][2]]
             res == Fetcher(kind, r)
         IN /\ fetchLog' = Append(fetchLog, res)
            /\ CASE res = "file" ->
                     /\ num_success' = num_success + 1
                     /\ num_failure' = num_failure
                     /\ postings' = update_posting_fetching_status(id, "success")
                     /\ rpc' = rpc
                 [] res = "none" ->
                     /\ num_success' = num_success
                     /\ num_failure' = num_failure + 1
                     /\ postings' = update_posting_fetching_status(id, "failure")
                     /\ rpc' = rpc
                 [] OTHER ->
                     /\ rpc' = "raised"
                     /\ UNCHANGED <<num_success, num_failure, postings>>
    /\ idx' = idx + 1
    /\ UNCHANGED <<libVars, iterVars, displayed, pc, outcome, histVars, batchVars,
                   discVars, plinks, link_status, records, pendingAtStart, lastFetch, fetcher>>

\* `return num_success, num_failure`
DownloadReturn ==
    /\ rpc = "running"
    /\ idx > Len(records)
    /\ rpc' = "returned"
    /\ UNCHANGED <<libVars, iterVars, displayed, postings, pc, outcome, histVars, batchVars,
                   discVars, plinks, link_status, records, idx, num_success, num_failure,
                   fetchLog, pendingAtStart, lastFetch, fetcher>>

(***************************************************************************)
(* Specification of one run of the iterator against any backend and store. *)
(***************************************************************************)
\* no function of the parsers is called, no extraction is running
NoCall == [fn |-> "none", arg |-> <<>>, result |-> None]

\* no discovery and no bulk retrieval is running
InitWorkflowsIdle ==
    /\ num_new_postings = 0 /\ raised = "none"
    /\ stored0 = postings /\ processed = {}
    /\ storedFetch = "none" /\ pageLinks = plinks
    /\ link_status = [id \in DOMAIN plinks |-> StatusOfNew(plinks[id])]
    /\ store_op = "none"
    /\ rpc = "idle" /\ records = <<>> /\ idx = 1
    /\ num_success = 0 /\ num_failure = 0
    /\ fetchLog = <<>> /\ pendingAtStart = FALSE
    /\ lastFetch = None
    /\ fetcher = FetcherIdle
    /\ extraction = NoExtraction
    /\ instances = [i \in Instances |-> InstanceIdle]

InitIdle == InitWorkflowsIdle /\ call = NoCall

\* the stores of the runs of the iterator: every posting has one DCE link
InitStore ==
    \E k \in 0..NumUrls :
        /\ postings = [u \in 1..k |-> PostingRow(u)]
        /\ plinks = [u \in 1..k |-> <<"dce">>]

InitIter ==
    /\ links = <<>> /\ page_state = NoToken /\ cookie = NoCookie
    /\ previous_links = None /\ exhausted = FALSE /\ seen_links = {}
    /\ batch_index = 0 /\ num_new_links = 0 /\ num_iterations = 0
    /\ displayed = <<>>
    /\ pc = "new" /\ outcome = "none"
    /\ emitted = <<>> /\ requests = <<>> /\ specSignal = "n/a"
    /\ signal = "none" /\ seeded = None
    /\ firstPage = <<>> /\ postLinks = {}
    /\ distinctPosts = TRUE /\ nPages = 0 /\ stalls = 0
    /\ session = NoSession
    /\ arg_n = 0 /\ ensure = None /\ todo = <<>>

Init ==
    /\ InitIter
    /\ consumer = "list"
    /\ InitStore
    /\ InitIdle

Next == Construct \/ FromStorage \/ IterateNext

Spec == Init /\ [][Next]_vars

(***************************************************************************)
(* Specification of list(iterator.iter_n_batches(n, ensure_n_new_links)):  *)
(* the caller keeps pulling, so every enabled step is eventually taken.    *)
(***************************************************************************)
InitBatches ==
    /\ InitIter
    /\ consumer = "list"
    /\ postings = <<>> /\ plinks = <<>>
    /\ InitIdle

NextBatches ==
    Construct \/ IterNBatches \/ EnsureWhile \/ EnsureFor \/ PlainFor \/ Resume

SpecBatches == InitBatches /\ [][NextBatches]_vars /\ WF_vars(NextBatches)

(***************************************************************************)
(* Specification of one run of discover_new_postings(n, resume,            *)
(* ensure_n_new_links) against any backend and any store.                  *)
(***************************************************************************)
InitDiscover ==
    /\ InitIter
    /\ consumer = "discover"
    /\ InitStore
    /\ InitIdle

NextDiscover ==
    \/ Construct \/ FromStorage
    \/ IterNBatches \/ EnsureWhile \/ EnsureFor \/ PlainFor \/ Resume
    \/ ProcessLink

SpecDiscover == InitDiscover /\ [][NextDiscover]_vars

(***************************************************************************)
(* Specification of the store: any sequence of postings persisted by       *)
(* discovery and of remove_posting calls, from the empty store.            *)
(***************************************************************************)
InitStoreOps ==
    /\ InitIter
    /\ consumer = "list"
    /\ postings = <<>> /\ plinks = <<>>
    /\ InitIdle

NextStoreOps == PersistPosting \/ RemovePosting

SpecStore == InitStoreOps /\ [][NextStoreOps]_vars

(***************************************************************************)
(* Specification of the life of the Posting rows: any sequence of postings *)
(* persisted by discovery, of fetch_posting_files and download_pending_    *)
(* files calls and of remove_posting calls, from the empty store.  The     *)
(* postings are those of the URLs the portal shows.                        *)
(***************************************************************************)
PersistShownPosting == PersistPosting /\ DOMAIN postings' \subseteq PostingUrls

NextLifecycle ==
    \/ PersistShownPosting \/ RemovePosting
    \/ FetchPostingFiles \/ FetchLinkStep \/ FetchPostingFilesReturn
    \/ DownloadPendingFiles \/ DownloadStep \/ DownloadReturn

SpecLifecycle == InitStoreOps /\ [][NextLifecycle]_vars

(***************************************************************************)
(* Specification of the calls of the store operations: any sequence of     *)
(* postings persisted by discovery and of calls of remove_posting and      *)
(* update_posting_fetching_status on any id, from the empty store.         *)
(***************************************************************************)
NextStoreCalls == PersistShownPosting \/ RemovePosting \/ UpdatePostingFetchingStatus

SpecStoreCalls == InitStoreOps /\ [][NextStoreCalls]_vars

(***************************************************************************)
(* Specification of discovery instances that process one link each against *)
(* the same store, their steps interleaved in any order.                   *)
(***************************************************************************)
NextInstances ==
    InstanceFetchPage \/ InstanceCheck \/ InstanceCheckAgain \/ InstanceCommit

SpecInstances == InitDiscover /\ [][NextInstances]_vars

(***************************************************************************)
(* Specification of a call of extract_all_archives on any directory.       *)
(***************************************************************************)
NextExtract == ExtractAllArchives \/ ExtractMarkdown \/ Gather

SpecExtract == InitStoreOps /\ [][NextExtract]_vars

(***************************************************************************)
(* Specification of the calls of PostingFileFetcher against any backend.   *)
(***************************************************************************)
InitFetch ==
    /\ InitIter
    /\ consumer = "list"
    /\ postings = <<>> /\ plinks = <<>>
    /\ InitIdle

NextFetch == CallFetcher \/ DceGet \/ DceValidate \/ DceDownload \/ FileGet

SpecFetch == InitFetch /\ [][NextFetch]_vars

(***************************************************************************)
(* Specification of the retrieval of files: any sequence of calls of       *)
(* fetch_posting_files and download_pending_files on any store.            *)
(***************************************************************************)
\* the links of a stored posting
LinkLists == {<<k>> : k \in Kinds} \cup {<<"dce", "complement">>}

InitRetrieve ==
    /\ InitIter
    /\ consumer = "list"
    /\ \E k \in 0..MaxPostings :
         /\ postings = [u \in 1..k |-> PostingRow(u)]
         /\ plinks \in [1..k -> LinkLists]
    /\ InitIdle

NextRetrieve ==
    \/ FetchPostingFiles \/ FetchLinkStep \/ FetchPostingFilesReturn
    \/ DownloadPendingFiles \/ DownloadStep \/ DownloadReturn

SpecRetrieve == InitRetrieve /\ [][NextRetrieve]_vars

(***************************************************************************)
(* Claims about one run of the iterator.                                   *)
(***************************************************************************)
RECURSIVE Flatten(_)
Flatten(ss) == IF ss = <<>> THEN <<>> ELSE Head(ss) \o Flatten(Tail(ss))

Produced == SeqToSet(Flatten(emitted))
StoredUrls == {postings[i].url : i \in DOMAIN postings}
EndSignals == {"status_500", "no_token", "same_token", "same_links", "no_new_links"}

\* C1: over all batches returned by __next__ in one run, no URL is produced
\* more than once, neither in two batches nor twice inside one batch.
C1_NoUrlProducedTwice == NoDuplicates(Flatten(emitted))

\* C5: an Advance step ends the sequence normally exactly when one of the five
\* signals holds for its response (status 500; no token; token unchanged; raw
\* link list equal to the previous raw link list; no link left after removing
\* the seen ones), the status being tested before the body; a response with
\* status 200 and no signal returns a non-empty batch.
C5_AdvanceEndsExactlyOnSignal ==
    specSignal \in EndSignals \cup {"none", "bad_status"} =>
        /\ (outcome = "stop") <=> (specSignal \in EndSignals)
        /\ specSignal = "none" =>
              outcome = "batch" /\ emitted # <<>> /\ emitted[Len(emitted)] # <<>>

\* C6: when the backend has served P pages with fresh tokens and distinct
\* links to the iterator's POSTs and then answers with an unchanged token, the
\* iterator has emitted exactly P batches and has ended without an error.
\* every POST response but the last was a page, the pages had distinct links
PagesThenEnd == stalls = 1 /\ distinctPosts
BackendStoppedAfterPages == signal = "same_token" /\ PagesThenEnd
C6_ExactlyPBatches ==
    (pc \in {"done", "error"} /\ BackendStoppedAfterPages) =>
        pc = "done" /\ Len(emitted) = nPages
C6_Witness ==
    pc = "done" /\ BackendStoppedAfterPages /\ nPages = 2 /\ Len(emitted) = 2

\* C7: against a backend whose pages are distinct, a run that is not resumed
\* and has ended has yielded every link of every page, the first batch being
\* the links of the first result page.
C7_YieldsEveryPageLink ==
    (/\ pc = "done"
     /\ seeded = None
     /\ signal \in {"status_500", "no_token", "same_token"}
     /\ PagesThenEnd
     /\ firstPage # <<>>
     /\ NoDuplicates(firstPage)
     /\ SeqToSet(firstPage) \cap postLinks = {}) =>
        /\ Produced = SeqToSet(firstPage) \cup postLinks
        /\ emitted[1] = firstPage

\* C8: from_storage sends no page-size POST, and the first batch produced is
\* exactly the set of posting URLs read from the store.
C8_ResumeSeedsFirstBatch ==
    seeded # None =>
        /\ \A i \in 1..Len(requests) : requests[i].size = 0
        /\ emitted # <<>> => SeqToSet(emitted[1]) = SeqToSet(seeded[1])

\* C9: after from_storage the seen set holds the URL of every stored Posting
\* and every URL already produced.
C9_SeenHoldsStoredAndProduced ==
    (seeded # None /\ pc \in {"ready", "done"}) =>
        /\ StoredUrls \subseteq seen_links
        /\ Produced \subseteq seen_links

(***************************************************************************)
(* Claims about discovery and retrieval.                                   *)
(***************************************************************************)
\* C10: a run of discover_new_postings that meets only postings that were
\* stored when it started adds no Posting row: the store stays what it was,
\* and no insert of a stored posting is attempted.
C10_SecondRunAddsNoRows ==
    (consumer = "discover" /\ processed \subseteq DOMAIN stored0) =>
        /\ postings = stored0
        /\ raised # "IntegrityError"

C10_Witness ==
    /\ consumer = "discover"
    /\ pc = "done"
    /\ stored0 # <<>>
    /\ processed = DOMAIN stored0
    /\ postings = stored0

\* three pending postings with one link each
ThreeSingleLinks == <<<<1, 1>>, <<2, 1>>, <<3, 1>>>>

\* C2: a bulk retrieval over three pending postings, where the fetch of the
\* second raises and the others give a file, returns (2, 1) and leaves the
\* postings Success, Failure, Success.
C2_ExceptionCountedRunContinues ==
    (/\ rpc \in {"returned", "raised"}
     /\ pendingAtStart
     /\ records = ThreeSingleLinks
     /\ Len(fetchLog) >= 2
     /\ fetchLog[1] = "file"
     /\ fetchLog[2] = "raise"
     /\ Len(fetchLog) >= 3 => fetchLog[3] = "file") =>
        /\ rpc = "returned"
        /\ num_success = 2 /\ num_failure = 1
        /\ postings[1].fetching_status = "success"
        /\ postings[2].fetching_status = "failure"
        /\ postings[3].fetching_status = "success"

\* C3: the fetching_status of a posting changes only from Pending.
C3_StatusLeavesOnlyPending ==
    [][\A id \in DOMAIN postings \cap DOMAIN postings' :
          postings'[id].fetching_status # postings[id].fetching_status =>
              postings[id].fetching_status = "pending"]_vars

\* C11: during discovery the page of a posting whose id is stored is never
\* requested, so such a URL cannot make the run fail.
C11_StoredUrlNotFetched == storedFetch = "none"

\* C12: a link whose processing raises ends the run: that step stores
\* nothing and leaves the failing link unprocessed, no step follows an error,
\* and every step keeps the postings and links committed before it.
C12_FailureAbortsKeepsCommitted ==
    [][/\ pc # "error"
       /\ raised' # raised =>
             /\ pc' = "error"
             /\ postings' = postings /\ plinks' = plinks
             /\ todo' = todo
       /\ \A id \in DOMAIN postings :
             /\ id \in DOMAIN postings'
             /\ postings'[id] = postings[id]
             /\ plinks'[id] = plinks[id]]_vars

C12_Witness ==
    /\ consumer = "discover"
    /\ pc = "error"
    /\ raised # "none"
    /\ num_new_postings >= 1
    /\ DOMAIN postings # DOMAIN stored0
    /\ todo # <<>>
    /\ ~is_stored(PostingId(Head(todo)))

\* C13: the store never holds a Posting without the links of its page, nor
\* links without their Posting, also after a failed parse or commit.
C13_PostingAndLinksOneUnit ==
    /\ DOMAIN plinks = DOMAIN postings
    /\ \A id \in DOMAIN postings : plinks[id] = pageLinks[id]

C13_Witness ==
    /\ consumer = "discover"
    /\ pc = "error"
    /\ raised \in {"ValueError", "OperationalError"}
    /\ \E id \in DOMAIN postings \ DOMAIN stored0 : plinks[id] # <<>>

\* C14: every PostingLink references a stored Posting: after remove_posting
\* no link of the removed posting is left.
C14_LinksReferenceLivePosting ==
    \A id \in DOMAIN plinks : plinks[id] # <<>> => is_stored(id)

\* C15: every stored Posting is stored under the id of its URL, and no two
\* Postings have the same URL.
C15_IdIsIdOfUrl ==
    /\ \A id \in DOMAIN postings : postings[id].url = id
    /\ \A a, b \in DOMAIN postings : postings[a].url = postings[b].url => a = b

C15_Witness ==
    /\ consumer = "discover"
    /\ pc = "done"
    /\ Cardinality(DOMAIN postings \ DOMAIN stored0) = NumUrls

\* C16: when a fetch of fetch_posting_files raises, the posting is marked
\* Failure, the call raises, and the raising fetch is the last one attempted.
C16_RaiseMarksFailureAndStops ==
    lastFetch # None =>
        LET f == lastFetch[1]
            raises == {i \in 1..Len(f.log) : f.log[i] = "raise"}
        IN /\ f.state = "raised" <=> raises # {}
           /\ raises # {} =>
                 /\ postings[f.id].fetching_status = "failure"
                 /\ raises = {Len(f.log)}

C16_Witness ==
    /\ lastFetch # None
    /\ lastFetch[1].state = "raised"
    /\ Len(lastFetch[1].log) < Len(plinks[lastFetch[1].id])

\* C17: in a bulk retrieval no link of a posting is attempted after a link
\* of the same posting has failed.
C17_NoAttemptAfterFailedLink ==
    \A i, j \in 1..Len(fetchLog) :
        (i < j /\ records[i][1] = records[j][1]) => fetchLog[i] = "file"

(***************************************************************************)
(* Claims about the calls of PostingFileFetcher.                           *)
(***************************************************************************)
\* the responses of the call that came with status 200
AllOk(f) == \A i \in 1..Len(f.responses) :
               ~f.responses[i].failed /\ f.responses[i].status = 200

\* C18: when step 2 of the DCE flow is answered 200 without a page token,
\* fetch_dce_file raises, step 3 is not sent and the sink is not invoked.
C18_Step2WithoutTokenFails ==
    (/\ fetcher.kind = "dce"
     /\ Len(fetcher.responses) >= 2
     /\ ~fetcher.responses[2].failed
     /\ fetcher.responses[2].status = 200
     /\ fetcher.responses[2].token = NoToken) =>
        /\ fetcher.pc = "done"
        /\ fetcher.result = "raise"
        /\ Len(fetcher.requests) = 2
        /\ fetcher.sink = <<>>

C18_Witness ==
    /\ fetcher.kind = "dce"
    /\ fetcher.pc = "done"
    /\ Len(fetcher.responses) = 2
    /\ fetcher.responses[2].status = 200
    /\ fetcher.responses[2].token = NoToken
    /\ fetcher.result = "raise"

\* C19: fetch_dce_file sends GET, POST validateButton, POST completeDownload
\* in this order; step 2 carries the token and cookie of step 1, step 3 the
\* token of step 2 and the cookie of step 1; the sink is invoked at most
\* once, and only after three responses with status 200.
C19_DceStepsReplayTokens ==
    fetcher.kind = "dce" =>
        LET rq == fetcher.requests
            rs == fetcher.responses
        IN /\ Len(rq) <= 3
           /\ Len(rq) >= 1 => rq[1] = Request("GET", DceUrl, NoToken, NoCookie)
           /\ Len(rq) >= 2 =>
                 rq[2] = Request("POST", ValidateButton, rs[1].token, rs[1].cookie)
           /\ Len(rq) >= 3 =>
                 rq[3] = Request("POST", CompleteDownload, rs[2].token, rs[1].cookie)
           /\ Len(fetcher.sink) <= 1
           /\ fetcher.sink # <<>> => Len(rs) = 3 /\ AllOk(fetcher)

C19_Witness ==
    /\ fetcher.kind = "dce"
    /\ fetcher.result = "file"
    /\ Len(fetcher.sink) = 1
    /\ fetcher.responses[1].token # fetcher.responses[2].token
    /\ fetcher.responses[1].cookie # fetcher.responses[2].cookie

\* C20: without a Content-Disposition header fetch_reglement_file returns a
\* null filename, fetch_avis_file and fetch_complement_file raise, and no
\* file is written.
C20_MissingHeaderByKind ==
    (/\ fetcher.pc = "done"
     /\ fetcher.kind \in {"reglement", "avis", "complement"}
     /\ ~fetcher.responses[1].failed
     /\ fetcher.responses[1].disposition = "absent") =>
        /\ fetcher.kind = "reglement" => fetcher.result = "none"
        /\ fetcher.kind \in {"avis", "complement"} => fetcher.result = "raise"
        /\ fetcher.sink = <<>>

\* C4: consuming iter_n_batches(n, ensure_n_new_links=K) always terminates.
C4_IterNBatchesTerminates == <>(pc \in {"done", "error"})

(***************************************************************************)
(* Claims about the requests of the search session.                        *)
(***************************************************************************)
\* the last request was sent by __next__ (Advance), not by __init__
LastIsAdvance ==
    /\ requests # <<>>
    /\ requests[Len(requests)].method = "POST"
    /\ requests[Len(requests)].size = 0

\* the last response has a status that is an error: any but 200 during
\* Initialize, any but 200 and 500 during Advance
BadStatus ==
    /\ requests # <<>>
    /\ session.status # 200
    /\ ~(LastIsAdvance /\ session.status = 500)

\* C21: a response with a status other than 200 during Initialize, or other
\* than 200 and 500 during Advance, ends discover_new_postings with an error;
\* after the error no request is sent and no batch is produced.
C21_BadStatusIsFatal ==
    /\ [](BadStatus => pc = "error")
    /\ [][pc = "error" => requests' = requests /\ emitted' = emitted]_vars

C21_Witness ==
    /\ consumer = "discover"
    /\ BadStatus
    /\ LastIsAdvance
    /\ pc = "error"
    /\ Len(emitted) >= 2

C21_WitnessInit ==
    /\ consumer = "discover"
    /\ session.status = 500
    /\ Len(requests) = 2
    /\ pc = "error"

\* C22: iter_n_batches(n) without ensure_n_new_links yields at most n
\* batches, for every n >= 0.
C22_AtMostNBatches ==
    (consumer = "list" /\ ensure = None /\ pc \in {"for_n", "yielded", "done"}) =>
        Len(emitted) <= arg_n

\* C23: every POST of the search session carries the token of the most
\* recent response that advanced the cursor and the cookie of the initial
\* GET, and the cookie of the iterator is never replaced during the run.
C23_PostsReplayTokenAndCookie ==
    /\ [](session.replayed)
    /\ [](pc \in {"ready", "done"} => cookie = session.cookie)
    /\ [][pc # "new" => cookie' = cookie]_vars

C23_Witness ==
    /\ Len(requests) >= 4
    /\ Len(emitted) >= 3
    /\ session.token # FirstToken
    /\ session.cookie = SessionCookie
    /\ session.replayed

\* the page token, the previous raw link list and the seen set of the cursor
Cursor == <<page_state, previous_links, seen_links>>

\* C30: an Advance step that ends the sequence leaves the page token, the
\* previous raw link list and the seen set as they were; only a step that
\* returns a batch changes them.
C30_EndLeavesCursor ==
    [][pc # "new" =>
          /\ outcome' = "stop" => Cursor' = Cursor
          /\ Cursor' # Cursor =>
                outcome' = "batch" /\ Len(emitted') = Len(emitted) + 1]_vars

C30_Witness ==
    /\ pc = "done"
    /\ signal \in {"same_links", "no_new_links"}
    /\ Len(emitted) >= 2
    /\ page_state = session.token

(***************************************************************************)
(* Specification of the calls of the parsers and of the archive names: any *)
(* call on any argument.                                                   *)
(***************************************************************************)
Calls(fn, args) == {[fn |-> fn, arg |-> a, result |-> None] : a \in args}

ArchiveNameArgs(i, j) ==
    [posting_id : 0..MaxArchiveId, filename : Names(i), file_type : Names(j)]

InitLib ==
    /\ InitIter
    /\ consumer = "list"
    /\ postings = <<>> /\ plinks = <<>>
    /\ InitWorkflowsIdle
    /\ \/ \E n \in 0..MaxSections : call \in Calls("parse_posting_info", InfoPages(n))
       \/ \E n \in 0..MaxAnchors : call \in Calls("parse_posting_links", LinkPages(n))
       \/ \E i, j \in 0..MaxNameLen : call \in Calls("archive_name", ArchiveNameArgs(i, j))

NextLib == ParsePostingInfo \/ ParsePostingLinks \/ ArchiveNameRoundTrip

SpecLib == InitLib /\ [][NextLib]_vars

(***************************************************************************)
(* Claims about the parsers and the archive names.                         *)
(***************************************************************************)
\* the page has each of the four labels at its position
LabelsInPlace(page) ==
    /\ Len(page) >= 4
    /\ \A i \in 1..4 : page[i].label = Labels[i]

\* C24: parse_posting_info returns a record with all four fields or raises;
\* it raises whenever one of the four labels is missing or is not the
\* expected one at its position, and never returns a partly filled record.
C24_CompleteRecordOrError ==
    (call.fn = "parse_posting_info" /\ call.result # None) =>
        LET res == call.result[1]
        IN /\ ~LabelsInPlace(call.arg) => res.raised # "none"
           /\ res.raised # "none" => res.raised \in ParseErrors /\ res.value = <<>>
           /\ res.raised = "none" =>
                 /\ DOMAIN res.value = SeqToSet(Fields)
                 /\ \A i \in 1..4 : /\ res.value[Fields[i]] = call.arg[i].value
                                    /\ res.value[Fields[i]] # "none"

C24_Witness ==
    /\ call.fn = "parse_posting_info"
    /\ call.result # None
    /\ Len(call.arg) = 4
    /\ call.arg[1].label = Labels[1]
    /\ call.arg[2].label = "none"
    /\ call.arg[2].value = "text"
    /\ call.result[1].raised = "ValueError"

C24_WitnessRecord ==
    /\ call.fn = "parse_posting_info"
    /\ call.result # None
    /\ call.result[1].raised = "none"

\* the id that encodes a kind
IdOfKind(kind) ==
    CASE kind = "reglement" -> "linkDownloadReglement"
      [] kind = "dce" -> "linkDownloadDce"
      [] kind = "avis" -> "linkDownloadAvis"
      [] kind = "complement" -> "linkDownloadComplement"

\* the hrefs, in document order, of the anchors of a kind that have one
HrefsOfKind(anchors, kind) ==
    LET of_kind == SelectSeq(anchors, LAMBDA a : /\ a.id = IdOfKind(kind)
                                                 /\ a.href \notin {"absent", ""})
    IN [i \in 1..Len(of_kind) |-> of_kind[i].href]

\* C25: for a page with its container parse_posting_links returns, for each
\* of the four kinds, the hrefs of the anchors whose id encodes the kind, in
\* document order; the other anchors add to no list.
C25_LinksByKindInOrder ==
    (call.fn = "parse_posting_links" /\ call.result # None /\ call.arg.pub) =>
        /\ call.result[1].raised = "none"
        /\ \A kind \in Kinds :
              call.result[1].value[kind] = HrefsOfKind(call.arg.anchors, kind)

\* the result of the round trip is the triple that was encoded
RoundTrips ==
    /\ call.result[1].raised = "none"
    /\ call.result[1].value =
          <<call.arg.posting_id, call.arg.filename, call.arg.file_type>>

\* C26 as stated: for every posting id >= 0 and every file stem and kind
\* without a dot, decoding the encoded archive name gives the triple back.
C26_RoundTripWithoutDot ==
    (/\ call.fn = "archive_name" /\ call.result # None
     /\ Positions(call.arg.filename, ".") = {}
     /\ Positions(call.arg.file_type, ".") = {}) => RoundTrips

\* C26 amended: the round trip holds for every posting id >= 0, every file
\* stem without a dot, a path separator or a line break, and every kind
\* without a dot or a line break.
C26_RoundTripOfPlainNames ==
    (/\ call.fn = "archive_name" /\ call.result # None
     /\ Positions(call.arg.filename, ".") = {}
     /\ Positions(call.arg.filename, "/") = {}
     /\ NoLineBreak(call.arg.filename)
     /\ Positions(call.arg.file_type, ".") = {}
     /\ NoLineBreak(call.arg.file_type)) => RoundTrips

C26_Witness ==
    /\ call.fn = "archive_name" /\ call.result # None
    /\ call.arg.posting_id = 10
    /\ call.arg.filename = <<"a", "a">>
    /\ call.arg.file_type = <<"a", "/">>
    /\ RoundTrips

(***************************************************************************)
(* Claims about the dispatcher, the store and the extraction.              *)
(***************************************************************************)
\* C27: PostingFileFetcher.__call__ runs the procedure of the kind for dce,
\* reglement, complement and avis, whose first request is the one of that
\* procedure; for any other kind it raises, sends no request and does not
\* invoke the byte sink.
C27_DispatchByKind ==
    fetcher.pc # "idle" =>
        /\ fetcher.kind = "dce" => fetcher.procedure = "fetch_dce_file"
        /\ fetcher.kind = "reglement" => fetcher.procedure = "fetch_reglement_file"
        /\ fetcher.kind = "complement" => fetcher.procedure = "fetch_complement_file"
        /\ fetcher.kind = "avis" => fetcher.procedure = "fetch_avis_file"
        /\ (fetcher.kind \in Kinds /\ fetcher.requests # <<>>) =>
              fetcher.requests[1].target =
                  (IF fetcher.kind = "dce" THEN DceUrl ELSE "link")
        /\ fetcher.kind \notin Kinds =>
              /\ fetcher.pc = "done" /\ fetcher.result = "raise"
              /\ fetcher.procedure = "none"
              /\ fetcher.requests = <<>> /\ fetcher.sink = <<>>

C27_Witness ==
    /\ fetcher.kind = "dume"
    /\ fetcher.pc = "done"
    /\ fetcher.result = "raise"
    /\ fetcher.requests = <<>>

C27_WitnessRouted ==
    /\ fetcher.kind = "avis"
    /\ fetcher.pc = "done"
    /\ fetcher.result = "file"

\* the step belongs to fetch_posting_files or to download_pending_files
RetrievalStep == <<rpc, idx, fetchLog, lastFetch>>' # <<rpc, idx, fetchLog, lastFetch>>

\* C28: no operation changes the URL or the descriptive fields of a stored
\* Posting, discovering it again leaves its row as it is, and only
\* fetch_posting_files and download_pending_files change its fetching_status.
C28_OnlyRetrievalChangesStatus ==
    [][\A id \in DOMAIN postings \cap DOMAIN postings' :
          /\ postings'[id].url = postings[id].url
          /\ postings'[id].info = postings[id].info
          /\ postings'[id] # postings[id] => RetrievalStep]_vars

C28_Witness ==
    /\ store_op = "skipped"
    /\ \E a, b \in DOMAIN postings :
          /\ postings[a].info = "first" /\ postings[a].fetching_status = "success"
          /\ postings[b].info = "revised" /\ postings[b].fetching_status = "failure"

\* C29: when the task of one archive fails, extract_all_archives still
\* completes and returns a record for every archive whose task succeeded
\* and none for the failed one.
C29_FailureLeavesOtherResults ==
    extraction.pc \in {"returned", "raised"} =>
        /\ extraction.pc = "returned"
        /\ SeqToSet(extraction.result) =
              {i \in 1..Len(extraction.tasks) : extraction.tasks[i] = "ok"}

(***************************************************************************)
(* Claims about the calls of __next__ after the sequence has ended.        *)
(***************************************************************************)
\* C31: once the iterator has ended its sequence through a termination
\* signal, every later call of __next__ ends at once with StopIteration: it
\* sends no request, returns no batch and changes no attribute.
C31_ExhaustionIsSticky ==
    [][exhausted =>
          /\ exhausted'
          /\ requests' = requests
          /\ emitted' = emitted
          /\ outcome' = "stop"
          /\ iterVars' = iterVars]_vars

\* __next__ has been called on an exhausted iterator
C31_Witness ==
    /\ exhausted
    /\ signal # "none"
    /\ specSignal = "exhausted"
    /\ outcome = "stop"

(***************************************************************************)
(* Claims about the ensure mode.                                           *)
(***************************************************************************)
\* the links of the batches yielded so far, the first batch included
NumYieldedLinks == Len(Flatten(emitted))

\* C32: iter_n_batches(n, ensure_n_new_links = K) with K >= 1 yields no
\* further batch once the batches it has yielded hold K links or more.
C32_EnsureStopsAtKLinks ==
    [][(ensure # None /\ ensure[1] >= 1 /\ NumYieldedLinks >= ensure[1])
          => emitted' = emitted]_vars

\* discover_new_postings was called with ensure_n_new_links = K >= 1 and has
\* persisted K new postings or more
ReachedK == ensure # None /\ ensure[1] >= 1 /\ num_new_postings >= ensure[1]

\* C33: discover_new_postings(n, ensure_n_new_links = K) with K >= 1 stops
\* as soon as K new postings are persisted, whatever n is: it holds at most
\* K new postings, and from then on it has left its loops, processes no link,
\* pulls no batch and stores nothing.
C33_DiscoveryStopsAtK ==
    /\ [](ReachedK => /\ num_new_postings = ensure[1]
                      /\ pc = "done"
                      /\ raised = "none")
    /\ [][ReachedK => /\ postings' = postings
                      /\ plinks' = plinks
                      /\ processed' = processed
                      /\ requests' = requests
                      /\ emitted' = emitted
                      /\ num_new_postings' = num_new_postings]_vars

\* the run stopped in the middle of a batch: the second link of the batch
\* was not processed
C33_Witness ==
    /\ ReachedK
    /\ ensure[1] = 1
    /\ Len(links) = 2
    /\ links[1] # links[2]
    /\ DOMAIN postings \ DOMAIN stored0 = {links[1]}

\* the run went on past n batches until K new postings were persisted
C33_WitnessPastN ==
    /\ ReachedK
    /\ ensure[1] = 2
    /\ Len(emitted) > arg_n
    /\ Cardinality(DOMAIN postings \ DOMAIN stored0) = 2

(***************************************************************************)
(* Claims about the responses to the file requests.                        *)
(***************************************************************************)
\* the last response of the call was received with a status other than 200
LastStatusNot200 ==
    /\ fetcher.responses # <<>>
    /\ ~fetcher.responses[Len(fetcher.responses)].failed
    /\ fetcher.responses[Len(fetcher.responses)].status # 200

\* C34: in every file acquisition procedure a response whose status is not
\* 200 is a transport error: the procedure fails, and the byte sink is not
\* invoked with that response.
C34_Non200FailsWithoutWrite ==
    LastStatusNot200 => fetcher.result = "raise" /\ fetcher.sink = <<>>

(***************************************************************************)
(* Claims about the store operations called with an id that is not stored. *)
(***************************************************************************)
\* the call failed with its ValueError and the tables are as they were
FailedStoreUnchanged ==
    /\ store_op' = "ValueError"
    /\ postings' = postings
    /\ plinks' = plinks

\* C35: update_posting_fetching_status(id, status) and remove_posting(id)
\* called with an id that has no Posting row fail with an error and leave
\* the store unchanged: no Posting, link or status is created, removed or
\* modified.
C35_AbsentIdFailsStoreUnchanged ==
    [][\A id \in (1..MaxPostings) \ DOMAIN postings :
          /\ (\E fk \in ForeignKeyEnforcement : RemovePostingOf(id, fk))
                => FailedStoreUnchanged
          /\ (\E status \in FetchingStatuses : UpdateStatusOf(id, status))
                => FailedStoreUnchanged]_vars

\* an operation was called with an id that is not stored while other
\* postings and links are
C35_Witness ==
    /\ store_op = "ValueError"
    /\ DOMAIN postings = PostingUrls
    /\ \E id \in DOMAIN plinks : plinks[id] # <<>>
    /\ \E id \in DOMAIN postings : postings[id].fetching_status # "pending"

(***************************************************************************)
(* Claims about the fetching_status of the links.                          *)
(***************************************************************************)
\* every stored PostingLink is Pending
LinksAllPending ==
    \A id \in DOMAIN link_status :
        \A i \in 1..Len(link_status[id]) : link_status[id][i] = "pending"

\* a call of download_pending_files starts
BulkRetrievalStarts == rpc # "running" /\ rpc' = "running"

\* C36: no operation changes the fetching_status of a PostingLink: whatever
\* calls of fetch_posting_files and download_pending_files were made, every
\* stored link is Pending, and the query of a bulk retrieval returns every
\* link of every stored posting, those of retrieved postings included.
C36_LinksStayPending ==
    /\ []LinksAllPending
    /\ [][BulkRetrievalStarts =>
             \A id \in DOMAIN postings :
                 \A i \in 1..Len(plinks[id]) : <<id, i>> \in SeqToSet(records')]_vars

\* a bulk retrieval is about to attempt the link of a posting that an
\* earlier retrieval has marked Success
C36_Witness ==
    /\ rpc = "running"
    /\ idx = 1
    /\ records # <<>>
    /\ postings[records[1][1]].fetching_status = "success"

(***************************************************************************)
(* Claims about the status the two retrievals give a posting.              *)
(***************************************************************************)
\* the running call of fetch_posting_files returns or raises at this step
FetchEnds ==
    /\ FetchRunning
    /\ lastFetch'[1].state \in {"returned", "raised"}

\* a round of download_pending_files whose fetch returns (None, None)
SoftMissRound ==
    /\ rpc = "running"
    /\ idx' = idx + 1
    /\ fetchLog' = Append(fetchLog, "none")

\* C37: fetch_posting_files marks the posting Success exactly when no fetch
\* of a link raised (a posting without links and a posting whose fetches all
\* returned a null filename included) and Failure otherwise, whereas
\* download_pending_files marks the posting Failure and counts a failure
\* for a link whose fetch returns a null filename.
C37_SuccessUnlessRaised ==
    /\ [][FetchEnds =>
             LET f == lastFetch'[1]
                 status == postings'[f.id].fetching_status
             IN /\ status \in {"success", "failure"}
                /\ status = "success" <=> "raise" \notin SeqToSet(f.log)
                /\ status = "success" <=> f.state = "returned"]_vars
    /\ [][SoftMissRound =>
             /\ postings'[records[idx][1]].fetching_status = "failure"
             /\ num_failure' = num_failure + 1
             /\ num_success' = num_success]_vars

\* fetch_posting_files has returned for a posting whose fetches were all
\* soft misses: the posting is Success
C37_Witness ==
    /\ lastFetch # None
    /\ lastFetch[1].state = "returned"
    /\ lastFetch[1].log = <<"none">>
    /\ lastFetch[1].id \in DOMAIN postings
    /\ postings[lastFetch[1].id].fetching_status = "success"

\* fetch_posting_files has returned for a posting without links
C37_WitnessNoLinks ==
    /\ lastFetch # None
    /\ lastFetch[1].state = "returned"
    /\ lastFetch[1].log = <<>>
    /\ lastFetch[1].id \in DOMAIN postings
    /\ postings[lastFetch[1].id].fetching_status = "success"

\* download_pending_files has counted a soft miss as a failure
C37_WitnessBulk ==
    /\ rpc = "running"
    /\ fetchLog = <<"none">>
    /\ num_failure = 1
    /\ postings[records[1][1]].fetching_status = "failure"

(***************************************************************************)
(* Claims about the kinds of the persisted links.                          *)
(***************************************************************************)
\* the anchors that have an href and whose id encodes one of the four kinds
FileAnchors(anchors) ==
    SelectSeq(anchors, LAMBDA a : /\ a.href \notin {"absent", ""}
                                  /\ infer_link_type(a.id) \in Kinds)

\* C38: every PostingLink built from the links parse_posting_links returns
\* has a kind in {reglement, dce, avis, complement}, a kind the dispatcher
\* routes to a procedure; anchors classified as dume and unclassified
\* anchors produce no PostingLink.
C38_PersistedKindsAreRouted ==
    (call.fn = "parse_posting_links" /\ call.result # None
        /\ call.result[1].raised = "none") =>
        LET rows == PostingLinksOf(call.result[1].value)
        IN /\ \A i \in 1..Len(rows) :
                 /\ rows[i].kind \in {"reglement", "dce", "avis", "complement"}
                 /\ Procedure(rows[i].kind) # "none"
           /\ Len(rows) = Len(FileAnchors(call.arg.anchors))

\* a page with a dume anchor and an anchor of a kind gave one PostingLink
C38_Witness ==
    /\ call.fn = "parse_posting_links"
    /\ call.result # None
    /\ call.result[1].raised = "none"
    /\ \E i \in 1..Len(call.arg.anchors) :
          /\ call.arg.anchors[i].id = "linkDownloadDume"
          /\ call.arg.anchors[i].href = "/file1"
    /\ Len(PostingLinksOf(call.result[1].value)) = 1

(***************************************************************************)
(* Claims about the filenames given to the byte sink.                      *)
(***************************************************************************)
\* C39: no file acquisition procedure invokes the byte sink with a null
\* filename: when the filename cannot be recovered from the response the
\* procedure returns (None, None) or fails, without writing.
C39_SinkNeverGetsNullFilename ==
    \A i \in 1..Len(fetcher.sink) : fetcher.sink[i] # "null"

(***************************************************************************)
(* Claims about discovery instances that share the store.                  *)
(***************************************************************************)
\* the instances that report the posting of a URL as newly discovered
Reporters(link) ==
    {i \in Instances : instances[i].link = link /\ instances[i].result = "created"}

\* an instance inserts the posting of its link at this step
Inserts(i) == instances[i].result # "created" /\ instances'[i].result = "created"

\* C40: with discovery instances interleaved on the same store, under every
\* interleaving of their presence checks and inserts no Posting is inserted
\* for an id that has a row, so the store never holds two Postings with the
\* same id, and at most one instance reports a posting as newly discovered.
C40_OneInstanceCreates ==
    /\ [](\A link \in PostingUrls : Cardinality(Reporters(link)) <= 1)
    /\ [][\A i \in Instances :
             Inserts(i) => /\ PostingId(instances[i].link) \notin DOMAIN postings
                           /\ PostingId(instances[i].link) \in DOMAIN postings'
                           /\ \A id \in DOMAIN postings : postings'[id] = postings[id]]_vars

\* two instances processed the same new URL and both passed the presence
\* checks: one created the posting, the insert of the other failed
C40_Witness ==
    /\ instances[1].link = instances[2].link
    /\ instances[1].result = "created"
    /\ instances[2].result = "IntegrityError"

====
